---- MODULE Spec2Model ----
(***************************************************************************)
(* A model of DFSPy's core module (src/dfspy_cores.py): the output         *)
(* directory policy, the denoising operations, the wavelet codec and the   *)
(* unit conversion, as far as the properties stated below need them.       *)
(*                                                                         *)
(* The module holds several state machines over disjoint groups of         *)
(* variables; each has its own specification (SpecLoc, SpecCorr, ...) in   *)
(* which the other groups stay at their initial value.                     *)
(***************************************************************************)
EXTENDS Integers, Sequences, FiniteSets, TLC

VARIABLES
    dirs,       \* OutputLocator: the directories that exist (absolute paths)
    locIn,      \* OutputLocator: the input path of the next operation
    chain,      \* OutputLocator: the calls of _ensure_output_dir made so far
    corr,       \* correlation_denoise: the windows of one call and what they wrote
    wav,        \* advanced_denoise: the wavelet round trip of one trace
    files,      \* the files that exist: path -> content
    codec,      \* compress_fwt_txt / decompress_fwt_to_txt: the calls made
    heap,       \* the Trace objects in memory: object id -> Trace
    arg,        \* the argument the caller passes to an operation
    call,       \* the operation called on arg, and how it ended
    job,        \* a worker thread of the GUI: its run and the signals it emitted
    sub,        \* spectral_subtraction_denoise: the magnitudes of one trace
    mod,        \* the import of dfspy_cores: the statement reached, the globals
    par,        \* concurrent jobs in _ensure_output_dir: the position of each
    cwin,       \* correlation_denoise: the channel classification of one window
    gui         \* the sub-windows: each one's start button and workers

locVars == <<dirs, locIn, chain>>

vars == <<dirs, locIn, chain, corr, wav, files, codec, heap, arg, call, job, sub, mod, par,
          cwin, gui>>

\* What the actions of one machine leave alone.
opsVars == <<heap, arg, call>>
notLoc == <<corr, wav, files, codec, opsVars, job, sub, mod, par, cwin, gui>>
notCorr == <<locVars, wav, files, codec, opsVars, job, sub, mod, par, cwin, gui>>
notWav == <<locVars, corr, files, codec, opsVars, job, sub, mod, par, cwin, gui>>
notCodec == <<locIn, chain, corr, wav, opsVars, job, sub, mod, par, cwin, gui>>
notOps == <<locIn, chain, corr, wav, codec, job, sub, mod, par, cwin, gui>>
notJob == <<locIn, chain, corr, wav, codec, opsVars, sub, mod, par, cwin, gui>>
notMod == <<locVars, corr, wav, files, codec, opsVars, job, sub, par, cwin, gui>>
notPar == <<locIn, chain, corr, wav, codec, opsVars, job, sub, mod, cwin, gui>>
notWin == <<locVars, corr, wav, files, codec, opsVars, job, sub, mod, par, gui>>
notSub == <<locVars, corr, wav, files, codec, opsVars, job, mod, par, cwin, gui>>
notGui == <<locVars, corr, wav, files, codec, opsVars, job, sub, mod, par, cwin>>

(***************************************************************************)
(* Paths.  An absolute, normalised path (what os.path.abspath returns) is  *)
(* the sequence of its components; a component is a sequence of tokens, so *)
(* that the regular expression of is_dfs_outputs has something to match.   *)
(***************************************************************************)
Root == <<>>

Dirname(p) == IF p = Root THEN Root ELSE SubSeq(p, 1, Len(p) - 1)

Basename(p) == IF p = Root THEN <<>> ELSE p[Len(p)]

Prefixes(p) == {SubSeq(p, 1, k) : k \in 0..Len(p)}

\* re.match(r'^DFSPy_.*_outputs$', name): the prefix "DFSPy_" and the suffix
\* "_outputs" may not share their underscore.
is_dfs_outputs(dirname) ==
    LET name == Basename(dirname) IN
    /\ Len(name) >= 4
    /\ name[1] = "DFSPy"
    /\ name[2] = "_"
    /\ name[Len(name) - 1] = "_"
    /\ name[Len(name)] = "outputs"

\* f"DFSPy_{task_name}_outputs"
OutputDirName(task_name) == <<"DFSPy", "_", task_name, "_", "outputs">>

\* A walk that leaves only the innermost output directory.
AscendOnce(parent) ==
    IF parent # Root /\ is_dfs_outputs(parent) THEN Dirname(parent) ELSE parent

\* while parent and is_dfs_outputs(parent): parent = os.path.dirname(parent)
RECURSIVE Ascend(_)
Ascend(parent) ==
    IF parent # Root /\ is_dfs_outputs(parent) THEN Ascend(Dirname(parent)) ELSE parent

\* _ensure_output_dir(input_path, task_name) on a non-empty path: the directory
\* it returns.  isdir is os.path.isdir(abs_in) at the time of the call.
EnsureOutputDir(abs_in, isdir, task_name) ==
    LET base_dir == IF isdir THEN abs_in ELSE Dirname(abs_in)
        parent == Ascend(base_dir)
    IN  parent \o <<OutputDirName(task_name)>>

\* os.makedirs(out_dir, exist_ok=True)
MakeDirs(ds, out_dir) == ds \cup Prefixes(out_dir)

(***************************************************************************)
(* The OutputLocator machine: an input is chosen, then operations are      *)
(* chained, each applied to the file the previous one wrote.               *)
(***************************************************************************)
MaxDepth == 3
MaxChain == 3

Tasks == {"format", "denoise", "compress"}

Names == { <<"a">>,
           <<"DFSPy", "_", "denoise", "_", "outputs">>,
           <<"DFSPy", "_", "_", "outputs">>,
           <<"DFSPy", "_", "outputs">>,
           <<"DFSPy", "_", "a">> }

OutFile == <<"out">>

PathsUpTo(n) == UNION {[1..k -> Names] : k \in 1..n}

NoInput == [empty |-> TRUE, path |-> Root]

LocInit ==
    /\ dirs = {Root}
    /\ locIn = NoInput
    /\ chain = <<>>

\* The caller's input: a file (its directory exists) or an existing directory.
LocChoose(p, asDir) ==
    /\ locIn = NoInput
    /\ chain = <<>>
    /\ locIn' = [empty |-> FALSE, path |-> p]
    /\ dirs' = dirs \cup Prefixes(IF asDir THEN p ELSE Dirname(p))
    /\ UNCHANGED <<chain, notLoc>>

\* One operation of the chain: _ensure_output_dir(input, task), and the
\* operation's output file, which is the next operation's input.
LocEnsure(task) ==
    /\ ~locIn.empty
    /\ Len(chain) < MaxChain
    /\ LET isdir == locIn.path \in dirs
           out == EnsureOutputDir(locIn.path, isdir, task)
       IN /\ dirs' = MakeDirs(dirs, out)
          /\ chain' = Append(chain, [input |-> locIn.path, isdir |-> isdir,
                                     task |-> task, out |-> out])
          /\ locIn' = [empty |-> FALSE, path |-> out \o <<OutFile>>]
    /\ UNCHANGED notLoc

LocNext ==
    \/ \E p \in PathsUpTo(MaxDepth), asDir \in BOOLEAN : LocChoose(p, asDir)
    \/ \E task \in Tasks : LocEnsure(task)

(***************************************************************************)
(* correlation_denoise, the sliding windows (lines 648-691).  Sample        *)
(* indices are 0..n_samples-1 as in the code; window i covers               *)
(* start..end-1 and writes deno[:, start:end].                              *)
(***************************************************************************)
MaxSamples == 7
MaxStep == 5

\* n_windows without the window that starts at 0.
NWindowsNoPlusOne(n_samples, window_size, step_size) ==
    (n_samples - window_size) \div step_size

\* n_windows = (n_samples - window_size) // step_size + 1
NWindows(n_samples, window_size, step_size) ==
    (n_samples - window_size) \div step_size + 1

\* The body of the loop for window i (0-based): start and end, with the shift
\* of a window that would overrun the record.
WindowBounds(i, n_samples, window_size, step_size) ==
    LET start == i * step_size
        end == start + window_size
    IN  IF end > n_samples
        THEN [start |-> n_samples - window_size, end |-> n_samples]
        ELSE [start |-> start, end |-> end]

\* for i in range(n_windows): the windows in the order they are processed.
CorrWindows(n_samples, window_size, step_size) ==
    LET nw == NWindows(n_samples, window_size, step_size) IN
    [k \in 1..(IF nw > 0 THEN nw ELSE 0) |->
        WindowBounds(k - 1, n_samples, window_size, step_size)]

Covers(win, idx) == win.start <= idx /\ idx < win.end

\* How many windows assign deno[:, idx].
WriteCount(wins, idx) == Cardinality({k \in DOMAIN wins : Covers(wins[k], idx)})

\* deno = np.zeros_like(data), then one slice assignment per window: the
\* window (1-based) whose value deno[:, idx] holds at the end, 0 for a sample
\* that keeps its initial zero.
LastWriter(wins, idx) ==
    LET ks == {k \in DOMAIN wins : Covers(wins[k], idx)} IN
    IF ks = {} THEN 0 ELSE CHOOSE k \in ks : \A j \in ks : j <= k

\* The checks of lines 648-653 on the window parameters (integers here).
CorrParamsValid(n_samples, window_size, step_size) ==
    /\ window_size > 0
    /\ step_size > 0
    /\ window_size <= n_samples

CorrIdle == [state |-> "idle"]

CorrInit == corr = CorrIdle

CorrelationWindows(n_samples, window_size, step_size) ==
    /\ corr = CorrIdle
    /\ corr' =
         IF ~CorrParamsValid(n_samples, window_size, step_size)
         THEN [state |-> "ValueError", n_samples |-> n_samples,
               window_size |-> window_size, step_size |-> step_size]
         ELSE LET wins == CorrWindows(n_samples, window_size, step_size) IN
              [state |-> "done", n_samples |-> n_samples,
               window_size |-> window_size, step_size |-> step_size,
               windows |-> wins,
               writes |-> [idx \in 0..(n_samples - 1) |-> WriteCount(wins, idx)],
               deno |-> [idx \in 0..(n_samples - 1) |-> LastWriter(wins, idx)]]
    /\ UNCHANGED notCorr

CorrNext ==
    \E n_samples \in 1..MaxSamples, window_size \in 0..(MaxSamples + 1),
       step_size \in 0..MaxStep :
        CorrelationWindows(n_samples, window_size, step_size)

(***************************************************************************)
(* The wavelet library as the code uses it (pywt, default mode             *)
(* 'symmetric'): only the lengths of the coefficient arrays matter here.   *)
(***************************************************************************)
Wavelets == {"haar", "db2", "db4"}

\* pywt.Wavelet(wavelet).dec_len
DecLen(wavelet) ==
    CASE wavelet = "haar" -> 2
      [] wavelet = "db2" -> 4
      [] wavelet = "db4" -> 8

Min(a, b) == IF a <= b THEN a ELSE b

\* pywt.dwt_max_level(data_len, filter_len): floor(log2(data_len / (filter_len - 1))),
\* 0 when the data is shorter than the filter.
RECURSIVE DwtMaxLevel(_, _)
DwtMaxLevel(data_len, filter_len) ==
    IF data_len < 2 * (filter_len - 1) THEN 0
    ELSE 1 + DwtMaxLevel(data_len \div 2, filter_len)

\* The length of cA and cD after one pywt.dwt of data_len samples.
DwtCoeffLen(data_len, filter_len) == (data_len + filter_len - 1) \div 2

\* The length of one pywt.idwt of two arrays of coeff_len coefficients.
IdwtLen(coeff_len, filter_len) == 2 * coeff_len - filter_len + 2

\* pywt.wavedec(x, wavelet, level=L): the lengths of [cA_L, cD_L, ..., cD_1].
RECURSIVE WavedecLens(_, _, _)
WavedecLens(data_len, filter_len, L) ==
    IF L = 0 THEN <<data_len>>
    ELSE LET m == DwtCoeffLen(data_len, filter_len) IN
         WavedecLens(m, filter_len, L - 1) \o <<m>>

\* pywt.waverec(coeffs, wavelet) on the lengths: a = coeffs[0]; for each d an
\* approximation one longer than d loses its last value, then a = idwt(a, d).
\* -1 stands for the ValueError of two arrays of different sizes.
RECURSIVE WaverecFrom(_, _, _, _)
WaverecFrom(a_len, lens, k, filter_len) ==
    IF k > Len(lens) THEN a_len
    ELSE LET a == IF a_len = lens[k] + 1 THEN a_len - 1 ELSE a_len IN
         IF a # lens[k] THEN -1
         ELSE WaverecFrom(IdwtLen(a, filter_len), lens, k + 1, filter_len)

WaverecLen(lens, filter_len) == WaverecFrom(lens[1], lens, 2, filter_len)

(***************************************************************************)
(* advanced_denoise, the loop body for one trace (lines 579-591).          *)
(***************************************************************************)
MaxTrace == 9
MaxLevel == 3

\* level = None is written 0: the code treats both alike.
NoLevel == 0

\* tr.data = x_rec without the alignment.
AlignNone(rec_len, n) == rec_len

\* n = min(len(x_rec), len(x)); tr.data = x_rec[:n]
AlignLength(rec_len, n) == Min(rec_len, n)

\* detail = coeffs[1] if len(coeffs) > 1 else coeffs[0]: the position, from
\* 1, of the band sigma is estimated from.
SigmaBand(coeffs) == IF Len(coeffs) > 1 THEN 2 ELSE 1

\* [coeffs[0]] + [pywt.threshold(c, ...) for c in coeffs[1:]]: the positions
\* of the bands that are thresholded.
ThresholdedBands(coeffs) == 2..Len(coeffs)

WavIdle == [state |-> "idle"]

WavInit == wav = WavIdle

\* level0_raises: whether the installed pywt.waverec rejects a coefficient
\* list of one array (releases before 1.1 do, later ones return it).
AdvancedDenoiseTrace(n, wavelet, level, level0_raises) ==
    /\ wav = WavIdle
    /\ wav' =
         IF wavelet \notin Wavelets
         THEN [state |-> "ValueError", n |-> n, wavelet |-> wavelet, level |-> level]
         ELSE LET max_level == DwtMaxLevel(n, DecLen(wavelet))
                  L == IF level # NoLevel /\ level > 0 THEN level ELSE max_level
                  coeffs == WavedecLens(n, DecLen(wavelet), L)
                  rec == WaverecLen(coeffs, DecLen(wavelet))
              IN  IF (Len(coeffs) = 1 /\ level0_raises) \/ rec < 0
                  THEN [state |-> "ValueError", n |-> n, wavelet |-> wavelet,
                        level |-> level]
                  ELSE [state |-> "done", n |-> n, wavelet |-> wavelet,
                        level |-> level, L |-> L, coeffs |-> coeffs,
                        detail |-> SigmaBand(coeffs),
                        thresholded |-> ThresholdedBands(coeffs),
                        rec_len |-> rec, out_len |-> AlignLength(rec, n)]
    /\ UNCHANGED notWav

WavNext ==
    \E n \in 1..MaxTrace, wavelet \in Wavelets \cup {"nosuch"},
       level \in {NoLevel} \cup 1..MaxLevel, level0_raises \in BOOLEAN :
        AdvancedDenoiseTrace(n, wavelet, level, level0_raises)

(***************************************************************************)
(* The Haar transform on sequences of numbers.  pywt's coefficients carry  *)
(* a factor 1/sqrt(2) per level, which the inverse undoes; the model keeps *)
(* the unnormalised sums and differences, so that the arithmetic stays in  *)
(* the integers and the inverse divides by 2.                              *)
(***************************************************************************)
Take(x, n) == SubSeq(x, 1, Min(Len(x), n))

Zeros(n) == [k \in 1..(IF n > 0 THEN n ELSE 0) |-> 0]

\* One pywt.dwt(x, 'haar'): a signal of odd length is extended by its last
\* sample (mode 'symmetric').
HaarDwt(x) ==
    LET ext == IF Len(x) % 2 = 1 THEN Append(x, x[Len(x)]) ELSE x
        m == Len(ext) \div 2
    IN  [a |-> [k \in 1..m |-> ext[2 * k - 1] + ext[2 * k]],
         d |-> [k \in 1..m |-> ext[2 * k - 1] - ext[2 * k]]]

\* One pywt.idwt(a, d, 'haar'), for arrays of the same length.
HaarIdwt(a, d) ==
    [k \in 1..(2 * Len(a)) |->
        IF k % 2 = 1 THEN (a[(k + 1) \div 2] + d[(k + 1) \div 2]) \div 2
        ELSE (a[k \div 2] - d[k \div 2]) \div 2]

\* pywt.wavedec(x, 'haar', level=L): [cA_L, cD_L, ..., cD_1].
RECURSIVE HaarWavedecLevel(_, _)
HaarWavedecLevel(x, L) ==
    IF L = 0 THEN <<x>>
    ELSE LET c == HaarDwt(x) IN HaarWavedecLevel(c.a, L - 1) \o <<c.d>>

\* pywt.wavedec(x, 'haar'): no level given, the maximum feasible depth.
HaarWavedec(x) == HaarWavedecLevel(x, DwtMaxLevel(Len(x), 2))

\* pywt.waverec(coeffs, 'haar') from detail k on; <<"ValueError">> stands
\* for the error pywt raises on arrays of different sizes.
RECURSIVE HaarWaverecFrom(_, _, _)
HaarWaverecFrom(a, coeffs, k) ==
    IF k > Len(coeffs) THEN a
    ELSE LET a1 == IF Len(a) = Len(coeffs[k]) + 1 THEN SubSeq(a, 1, Len(a) - 1) ELSE a IN
         IF Len(a1) # Len(coeffs[k]) THEN <<"ValueError">>
         ELSE HaarWaverecFrom(HaarIdwt(a1, coeffs[k]), coeffs, k + 1)

HaarWaverec(coeffs) == HaarWaverecFrom(coeffs[1], coeffs, 2)

(***************************************************************************)
(* Text matrices and the FWT codec (compress_fwt_txt, lines 865-901;       *)
(* decompress_fwt_to_txt, lines 1039-1079).  A matrix is its shape and its *)
(* columns (traces); a file name is the sequence <<base..., extension>>.   *)
(***************************************************************************)
MaxRows == 4
MaxCols == 2
MaxCells == 6
MaxDamage == 2

Vals == {1, 3}

Matrix(r, c, columns) == [rows |-> r, cols |-> c, col |-> columns]

\* The text matrices: every matrix over Vals of at most MaxRows rows, MaxCols
\* columns and MaxCells numbers.
Matrices ==
    UNION {{Matrix(shape[1], shape[2], columns) :
               columns \in [1..shape[2] -> [1..shape[1] -> Vals]]} :
              shape \in {sh \in (1..MaxRows) \X (1..MaxCols) : sh[1] * sh[2] <= MaxCells}}

\* np.loadtxt (ndmin=0) squeezes the axes of length 1: one row or one column
\* comes back 1-D, a single number 0-D.  read_txt_array turns 1-D into one
\* column and rejects what is not 2-D then.
read_txt_array(M) ==
    IF M.rows = 1 /\ M.cols = 1 THEN [err |-> "ValueError"]
    ELSE IF M.rows = 1
    THEN [err |-> "none",
          data |-> Matrix(M.cols, 1, <<[k \in 1..M.cols |-> M.col[k][1]]>>)]
    ELSE [err |-> "none", data |-> M]

DataDir == <<<<"data">>>>

TxtPath == DataDir \o <<<<"m", ".txt">>>>

\* os.path.splitext(os.path.basename(path))[0]
BaseOf(path) == LET name == Basename(path) IN SubSeq(name, 1, Len(name) - 1)

NoFiles == [p \in {} |-> 0]

WriteFile(fs, path, content) ==
    [p \in DOMAIN fs \cup {path} |-> IF p = path THEN content ELSE fs[p]]

\* The result of a call: the error raised ("none" when it returns), the file
\* system it leaves, and the path it returns.
Outcome(err, ds, fs, path) == [err |-> err, dirs |-> ds, files |-> fs, path |-> path]

\* The pickled dictionary: wavelet, shape and coeffs['coefficients_<i>'] =
\* pywt.wavedec(data[:, i], wavelet).
Payload(data, wavelet) ==
    [kind |-> "pkl", wavelet |-> wavelet, shape |-> <<data.rows, data.cols>>,
     coeffs |-> [i \in 0..(data.cols - 1) |-> HaarWavedec(data.col[i + 1])]]

\* compress_fwt_txt(txt_path, wavelet), with pywt installed.
compress_fwt_txt(ds, fs, txt_path, wavelet) ==
    IF txt_path \notin DOMAIN fs THEN Outcome("FileNotFoundError", ds, fs, Root)
    ELSE LET rd == read_txt_array(fs[txt_path].matrix) IN
    IF rd.err # "none" THEN Outcome(rd.err, ds, fs, Root)
    ELSE LET out_dir == EnsureOutputDir(txt_path, txt_path \in ds, "compress")
             ds1 == MakeDirs(ds, out_dir)
             data == rd.data
         IN
    IF wavelet # "haar" THEN Outcome("ValueError", ds1, fs, Root)
    ELSE LET out_pkl == out_dir \o <<BaseOf(txt_path) \o <<"-coefficients", ".pkl">>>>
         IN  Outcome("none", ds1, WriteFile(fs, out_pkl, Payload(data, wavelet)), out_pkl)

\* data[:, i] = rec without the alignment to n_samples.
AlignColumnNone(rec, n_samples) == rec

\* data = np.zeros((n_samples, n_traces)); L = min(len(rec), n_samples);
\* data[:L, i] = rec[:L]: column i of the result.
AlignColumn(rec, n_samples) ==
    Take(rec, n_samples) \o Zeros(n_samples - Len(rec))

\* shape = tuple(payload.get('shape', ()))
RecordedShape(payload) ==
    IF "shape" \in DOMAIN payload THEN payload.shape ELSE <<>>

\* decompress_fwt_to_txt(pkl_path), with pywt installed and the default
\* output name.  payload['coeffs'] is looked up before the shape is checked.
decompress_fwt_to_txt(ds, fs, pkl_path) ==
    IF pkl_path \notin DOMAIN fs THEN Outcome("FileNotFoundError", ds, fs, Root)
    ELSE LET payload == fs[pkl_path]
             shape == RecordedShape(payload)
         IN
    IF "coeffs" \notin DOMAIN payload THEN Outcome("KeyError", ds, fs, Root)
    ELSE IF shape = <<>> \/ Len(shape) # 2 THEN Outcome("ValueError", ds, fs, Root)
    ELSE LET n_samples == shape[1]
             n_traces == shape[2]
             recs == [i \in 0..(n_traces - 1) |->
                        IF i \in DOMAIN payload.coeffs
                        THEN HaarWaverec(payload.coeffs[i]) ELSE <<"missing">>]
         IN
    IF \E i \in DOMAIN recs : recs[i] \in {<<"missing">>, <<"ValueError">>}
    THEN Outcome("ValueError", ds, fs, Root)
    ELSE LET data == Matrix(n_samples, n_traces,
                            [k \in 1..n_traces |-> AlignColumn(recs[k - 1], n_samples)])
             out_dir == EnsureOutputDir(pkl_path, pkl_path \in ds, "decompress")
             out_path == out_dir \o <<BaseOf(pkl_path) \o <<"-reconstructed", ".txt">>>>
         IN  Outcome("none", MakeDirs(ds, out_dir),
                     WriteFile(fs, out_path, [kind |-> "txt", matrix |-> data]),
                     out_path)

CodecIdle == [state |-> "idle"]

CodecInit == files = NoFiles /\ codec = CodecIdle

\* The caller's text file.
CodecWriteTxt(M) ==
    /\ codec = CodecIdle
    /\ dirs' = dirs \cup Prefixes(DataDir)
    /\ files' = WriteFile(files, TxtPath, [kind |-> "txt", matrix |-> M])
    /\ codec' = [state |-> "txt", M |-> M]
    /\ UNCHANGED notCodec

CodecCompress(wavelet) ==
    /\ codec.state = "txt"
    /\ LET r == compress_fwt_txt(dirs, files, TxtPath, wavelet) IN
       /\ dirs' = r.dirs
       /\ files' = r.files
       /\ codec' = [state |-> IF r.err = "none" THEN "pkl" ELSE "failed",
                    M |-> codec.M, err |-> r.err, pkl |-> r.path, foreign |-> FALSE,
                    damage |-> {}]
    /\ UNCHANGED notCodec

\* A payload that was not written by compress_fwt_txt as it stands: the
\* recorded shape is another one.
CodecForeignPayload(n_samples, n_traces) ==
    /\ codec.state = "pkl"
    /\ ~codec.foreign
    /\ codec.damage = {}
    /\ <<n_samples, n_traces>> # files[codec.pkl].shape
    /\ files' = [files EXCEPT ![codec.pkl].shape = <<n_samples, n_traces>>]
    /\ codec' = [codec EXCEPT !.foreign = TRUE]
    /\ UNCHANGED <<dirs, notCodec>>

\* The ways a pickled dictionary can lack what decompress_fwt_to_txt reads:
\* no 'shape' key, a shape of one or of three dimensions, no 'coeffs' key,
\* no 'coefficients_0' in coeffs.
Damages == {"no_shape", "shape_1d", "shape_3d", "no_coeffs", "no_trace"}

Without(dict, key) == [k \in DOMAIN dict \ {key} |-> dict[k]]

Damaged(payload, damage) ==
    CASE damage = "no_shape" -> Without(payload, "shape")
      [] damage = "shape_1d" ->
            IF "shape" \in DOMAIN payload /\ Len(payload.shape) >= 1
            THEN [payload EXCEPT !.shape = SubSeq(payload.shape, 1, 1)]
            ELSE payload
      [] damage = "shape_3d" ->
            IF "shape" \in DOMAIN payload /\ Len(payload.shape) = 2
            THEN [payload EXCEPT !.shape = payload.shape \o <<1>>]
            ELSE payload
      [] damage = "no_coeffs" -> Without(payload, "coeffs")
      [] damage = "no_trace" ->
            IF "coeffs" \in DOMAIN payload
            THEN [payload EXCEPT !.coeffs = Without(payload.coeffs, 0)]
            ELSE payload

\* A pickled dictionary that lacks part of what compress_fwt_txt writes.
CodecDamagedPayload(damage) ==
    /\ codec.state = "pkl"
    /\ Cardinality(codec.damage) < MaxDamage
    /\ damage \notin codec.damage
    /\ Damaged(files[codec.pkl], damage) # files[codec.pkl]
    /\ files' = [files EXCEPT ![codec.pkl] = Damaged(files[codec.pkl], damage)]
    /\ codec' = [codec EXCEPT !.foreign = TRUE, !.damage = codec.damage \cup {damage}]
    /\ UNCHANGED <<dirs, notCodec>>

CodecDecompress ==
    /\ codec.state = "pkl"
    /\ LET r == decompress_fwt_to_txt(dirs, files, codec.pkl) IN
       /\ dirs' = r.dirs
       /\ files' = r.files
       /\ codec' = [state |-> IF r.err = "none" THEN "txt_out" ELSE "failed",
                    M |-> codec.M, err |-> r.err, pkl |-> codec.pkl,
                    foreign |-> codec.foreign, damage |-> codec.damage,
                    out |-> r.path]
    /\ UNCHANGED notCodec

CodecNext ==
    \/ \E M \in Matrices : CodecWriteTxt(M)
    \/ \E wavelet \in {"haar", "nosuch"} : CodecCompress(wavelet)
    \/ \E n_samples \in 0..(MaxRows + 1), n_traces \in 1..(MaxCols + 1) :
          CodecForeignPayload(n_samples, n_traces)
    \/ \E damage \in Damages : CodecDamagedPayload(damage)
    \/ CodecDecompress

(***************************************************************************)
(* Streams in memory.  A Stream is a list of references to Trace objects;  *)
(* st.copy() makes new objects, st.filter(...) and tr.data = ... change    *)
(* the objects of the Stream they are applied to.  A sample is the pair of *)
(* its raw value and the name of the transform applied to it: the          *)
(* floating-point arithmetic itself is not interpreted.                    *)
(***************************************************************************)
Raw(v) == <<v, "raw">>

Stats(n, sampling_rate, channel) ==
    [npts |-> n, sampling_rate |-> sampling_rate, channel |-> channel]

\* Trace(data=...), and obspy's rule stats.npts = len(data).
TraceOf(data, stats) == [data |-> data, stats |-> [stats EXCEPT !.npts = Len(data)]]

NoHeap == <<>>

\* New Trace objects: the heap with them, and the list of their references.
Allocate(h, traces) ==
    [heap |-> h \o traces, st |-> [k \in 1..Len(traces) |-> Len(h) + k]]

\* st_f = st: no copy, the same Trace objects.
StreamAlias(h, st) == [heap |-> h, st |-> st]

\* st.copy(): a deep copy.
StreamCopy(h, st) == Allocate(h, [k \in 1..Len(st) |-> h[st[k]]])

\* The Traces a Stream refers to, by value.
Deref(h, st) == [k \in 1..Len(st) |-> h[st[k]]]

\* Every sample of x replaced by its transform `how`.
Transformed(x, how) == [k \in 1..Len(x) |-> <<x[k][1], how>>]

\* for tr in st: tr.data = f(tr.data), in place, the metadata kept.
TransformInPlace(h, st, how) ==
    [i \in 1..Len(h) |->
        IF \E k \in 1..Len(st) : st[k] = i
        THEN TraceOf(Transformed(h[i].data, how), h[i].stats) ELSE h[i]]

(***************************************************************************)
(* What the stream operations share: the input (lines 433-440 and the like)*)
(* and the output file (lines 445-456 and the like).                       *)
(***************************************************************************)
Exts == {".mseed", ".sac", ".txt", ".pkl"}

\* os.path.splitext(os.path.basename(path)): <<base, ext>>, ext = <<>> for none.
Splitext(path) ==
    LET name == Basename(path) IN
    IF Len(name) >= 2 /\ name[Len(name)] \in Exts
    THEN <<SubSeq(name, 1, Len(name) - 1), <<name[Len(name)]>>>>
    ELSE <<name, <<>>>>

Cwd == DataDir

MseedPath == DataDir \o <<<<"in", ".mseed">>>>

\* st[0].stats.get('source', 'stream'), made absolute.
StreamInPath == Cwd \o <<<<"stream">>>>

\* The argument as a Stream: read_stream(path) for a str (a file that is not
\* there is FileNotFoundError), the Stream itself, TypeError for anything else.
LoadInput(h, fs, a) ==
    CASE a.kind = "path" ->
           IF a.path \notin DOMAIN fs
           THEN [err |-> "FileNotFoundError", read |-> TRUE]
           ELSE LET al == Allocate(h, fs[a.path].traces) IN
                [err |-> "none", read |-> TRUE, heap |-> al.heap, st |-> al.st,
                 in_path |-> a.path]
      [] a.kind = "stream" ->
           [err |-> "none", read |-> FALSE, heap |-> h, st |-> a.st,
            in_path |-> StreamInPath]
      [] OTHER -> [err |-> "TypeError", read |-> FALSE]

\* How a call ends: the error raised ("none": it returned `path`), whether
\* the input file had been read and whether samples had been transformed by
\* then, and the memory and file system it leaves.
Result(err, read, computed, h, ds, fs, path) ==
    [err |-> err, read |-> read, computed |-> computed, heap |-> h,
     dirs |-> ds, files |-> fs, path |-> path]

\* out_dir = _ensure_output_dir(in_path, task); out_path = out_dir/<base><suffix><ext
\* or .mseed>; st.write(out_path).  ObsPy refuses to write an empty Stream.
WriteStream(read, h, ds, fs, st, in_path, task, suffix) ==
    LET out_dir == EnsureOutputDir(in_path, in_path \in ds, task)
        ds1 == MakeDirs(ds, out_dir)
        sp == Splitext(in_path)
        ext == IF sp[2] = <<>> THEN <<".mseed">> ELSE sp[2]
        out_path == out_dir \o <<sp[1] \o suffix \o ext>>
    IN  IF Len(st) = 0
        THEN Result("ObsPyException", read, FALSE, h, ds1, fs, Root)
        ELSE Result("none", read, TRUE, h, ds1,
                    WriteFile(fs, out_path, [kind |-> "stream", traces |-> Deref(h, st)]),
                    out_path)

Digits == <<"0", "1", "2", "3", "4", "5", "6", "7", "8", "9">>

\* A non-negative integer in decimal, one token per digit.
RECURSIVE Decimal(_)
Decimal(n) ==
    IF n < 10 THEN <<Digits[n + 1]>> ELSE Decimal(n \div 10) \o <<Digits[(n % 10) + 1]>>

\* 0 < fmin < fmax
\* The tokens of a name as one str.
RECURSIVE Join(_)
Join(tokens) == IF tokens = <<>> THEN "" ELSE Head(tokens) \o Join(Tail(tokens))

\* The filter that was designed: its type, corner frequencies (Hz, or the
\* Nyquist frequency), number of corners and whether it runs in both
\* directions.
FilterConfig(type, corner_hz, corners, zerophase) ==
    Join(<<type>> \o corner_hz \o <<"_c">> \o Decimal(corners)
           \o <<IF zerophase THEN "_zerophase" ELSE "_causal">>)

Applied(how) == [err |-> "none", how |-> how]

Rejected == [err |-> "ValueError"]

\* obspy.signal.filter.highpass(data, freq, df, corners, zerophase): a corner
\* above the Nyquist frequency df/2 raises ValueError; SciPy's iirfilter
\* rejects a corner at it (0 < Wn < 1).
ObspyHighpass(freq, df, corners, zerophase) ==
    IF 2 * freq >= df THEN Rejected
    ELSE Applied(FilterConfig("highpass", <<"_">> \o Decimal(freq), corners, zerophase))

\* obspy.signal.filter.lowpass: a corner above Nyquist is set to Nyquist with
\* a warning, which iirfilter then rejects.
ObspyLowpass(freq, df, corners, zerophase) ==
    IF 2 * freq >= df THEN Rejected
    ELSE Applied(FilterConfig("lowpass", <<"_">> \o Decimal(freq), corners, zerophase))

\* obspy.signal.filter.bandpass: with the high corner at or above Nyquist it
\* warns and returns highpass(data, freq=freqmin, ...).
ObspyBandpass(freqmin, freqmax, df, corners, zerophase) ==
    IF 2 * freqmax >= df THEN ObspyHighpass(freqmin, df, corners, zerophase)
    ELSE Applied(FilterConfig("bandpass",
                              <<"_">> \o Decimal(freqmin) \o <<"_">> \o Decimal(freqmax),
                              corners, zerophase))

\* obspy.signal.filter.bandstop: a high corner above Nyquist is set just
\* below it with a warning; a low corner above Nyquist raises ValueError.
ObspyBandstop(freqmin, freqmax, df, corners, zerophase) ==
    IF 2 * freqmin >= df \/ 2 * freqmax = df THEN Rejected
    ELSE Applied(FilterConfig("bandstop",
                              <<"_">> \o Decimal(freqmin) \o <<"_">>
                                \o (IF 2 * freqmax > df THEN <<"nyquist">>
                                    ELSE Decimal(freqmax)),
                              corners, zerophase))

\* Trace.filter(type, **options) on a trace sampled at df.
TraceFilter(type, freqs, df, corners, zerophase) ==
    CASE type = "bandpass" -> ObspyBandpass(freqs[1], freqs[2], df, corners, zerophase)
      [] type = "bandstop" -> ObspyBandstop(freqs[1], freqs[2], df, corners, zerophase)
      [] type = "lowpass" -> ObspyLowpass(freqs[1], df, corners, zerophase)
      [] type = "highpass" -> ObspyHighpass(freqs[1], df, corners, zerophase)

\* Stream.filter(type, **options): for tr in self: tr.filter(...), in place,
\* from trace k on; it stops at the first trace whose filter is rejected.
RECURSIVE StreamFilter(_, _, _, _, _, _, _)
StreamFilter(h, st, k, type, freqs, corners, zerophase) ==
    IF k > Len(st) THEN [err |-> "none", heap |-> h, computed |-> k > 1]
    ELSE LET tr == h[st[k]]
             f == TraceFilter(type, freqs, tr.stats.sampling_rate, corners, zerophase)
         IN  IF f.err # "none" THEN [err |-> f.err, heap |-> h, computed |-> k > 1]
             ELSE StreamFilter([h EXCEPT ![st[k]] = TraceOf(Transformed(tr.data, f.how),
                                                             tr.stats)],
                               st, k + 1, type, freqs, corners, zerophase)

BandValid(freqs) == Len(freqs) = 2 /\ freqs[1] > 0 /\ freqs[2] > 0 /\ freqs[2] > freqs[1]

\* bandpass_denoise(input_path_or_stream, freqmin, freqmax)
bandpass_denoise(h, ds, fs, a, freqs) ==
    IF ~BandValid(freqs) THEN Result("ValueError", FALSE, FALSE, h, ds, fs, Root)
    ELSE LET ld == LoadInput(h, fs, a) IN
    IF ld.err # "none" THEN Result(ld.err, ld.read, FALSE, h, ds, fs, Root)
    ELSE LET cp == StreamCopy(ld.heap, ld.st)
             f == StreamFilter(cp.heap, cp.st, 1, "bandpass", freqs, 4, FALSE)
         IN
    IF f.err # "none" THEN Result(f.err, ld.read, f.computed, f.heap, ds, fs, Root)
    ELSE WriteStream(ld.read, f.heap, ds, fs, cp.st, ld.in_path, "denoise", <<"_Bandpass">>)

FilterModes == {"bandpass", "lowpass", "highpass", "bandstop"}

\* The frequency checks of lines 503-514.
FreqsValid(mode, freqs) ==
    IF mode \in {"bandpass", "bandstop"} THEN BandValid(freqs)
    ELSE Len(freqs) >= 1 /\ freqs[1] > 0

\* filter_stream(input_path_or_stream, mode, kind, freqs, order, zerophase)
filter_stream(h, ds, fs, a, mode, kind, freqs, order, zerophase) ==
    IF mode \notin FilterModes THEN Result("ValueError", FALSE, FALSE, h, ds, fs, Root)
    ELSE IF kind \notin {"butterworth", "cheby1"}
    THEN Result("ValueError", FALSE, FALSE, h, ds, fs, Root)
    ELSE LET ld == LoadInput(h, fs, a) IN
    IF ld.err # "none" THEN Result(ld.err, ld.read, FALSE, h, ds, fs, Root)
    ELSE IF ~FreqsValid(mode, freqs)
    THEN Result("ValueError", ld.read, FALSE, ld.heap, ds, fs, Root)
    ELSE LET cp == StreamCopy(ld.heap, ld.st)
             f == StreamFilter(cp.heap, cp.st, 1, mode, freqs, order, zerophase)
         IN
    IF f.err # "none" THEN Result(f.err, ld.read, f.computed, f.heap, ds, fs, Root)
    ELSE WriteStream(ld.read, f.heap, ds, fs, cp.st, ld.in_path, "denoise",
                     <<"_", mode, "_o">> \o Decimal(order) \o <<"_">>
                       \o Decimal(freqs[1])
                       \o (IF mode \in {"bandpass", "bandstop"}
                           THEN <<"-">> \o Decimal(freqs[2]) ELSE <<>>)
                       \o <<"Hz">>)

\* strain_to_velocity(input_path_or_stream, apparent_velocity, normalize_divisor)
\* The conversion with the parameters checked after the input is loaded.
StrainToVelocityLoadFirst(h, ds, fs, a, apparent_velocity, normalize_divisor) ==
    LET ld == LoadInput(h, fs, a) IN
    IF ld.err # "none" THEN Result(ld.err, ld.read, FALSE, h, ds, fs, Root)
    ELSE IF ~(apparent_velocity > 0) \/ ~(normalize_divisor > 0)
    THEN Result("ValueError", ld.read, FALSE, h, ds, fs, Root)
    ELSE LET cp == StreamCopy(ld.heap, ld.st)
             h1 == TransformInPlace(cp.heap, cp.st, "velocity")
         IN  WriteStream(ld.read, h1, ds, fs, cp.st, ld.in_path, "paraconv", <<"_velocity">>)

strain_to_velocity(h, ds, fs, a, apparent_velocity, normalize_divisor) ==
    IF ~(apparent_velocity > 0) THEN Result("ValueError", FALSE, FALSE, h, ds, fs, Root)
    ELSE IF ~(normalize_divisor > 0)
    THEN Result("ValueError", FALSE, FALSE, h, ds, fs, Root)
    ELSE LET ld == LoadInput(h, fs, a) IN
    IF ld.err # "none" THEN Result(ld.err, ld.read, FALSE, h, ds, fs, Root)
    ELSE LET cp == StreamCopy(ld.heap, ld.st)
             h1 == TransformInPlace(cp.heap, cp.st, "velocity")
         IN  WriteStream(ld.read, h1, ds, fs, cp.st, ld.in_path, "paraconv", <<"_velocity">>)

\* The loop body of advanced_denoise for a trace of n samples (lines 579-591):
\* pywt.Wavelet rejects an unknown name before anything is computed,
\* pywt.threshold an unknown mode once the decomposition exists and has a
\* detail band.
WaveletTrace(n, wavelet, level, thr_mode, level0_raises) ==
    IF wavelet \notin Wavelets THEN [err |-> "ValueError", computed |-> FALSE]
    ELSE LET max_level == DwtMaxLevel(n, DecLen(wavelet))
             L == IF level # NoLevel /\ level > 0 THEN level ELSE max_level
             coeffs == WavedecLens(n, DecLen(wavelet), L)
             rec == WaverecLen(coeffs, DecLen(wavelet))
         IN  IF Len(coeffs) > 1 /\ thr_mode \notin {"soft", "hard"}
             THEN [err |-> "ValueError", computed |-> TRUE]
             ELSE IF (Len(coeffs) = 1 /\ level0_raises) \/ rec < 0
             THEN [err |-> "ValueError", computed |-> TRUE]
             ELSE [err |-> "none", computed |-> TRUE, out_len |-> AlignLength(rec, n)]

\* x_rec[:n]: the reconstruction of x, cut to out_len samples.
Reconstructed(x, out_len) ==
    [k \in 1..out_len |-> IF k <= Len(x) THEN <<x[k][1], "wavelet">> ELSE <<0, "wavelet">>]

\* for tr in st_out: ... tr.data = x_rec[:n], from trace k on; the loop stops
\* at the first trace the wavelet library rejects.
RECURSIVE WaveletLoop(_, _, _, _, _, _, _, _)
WaveletLoop(h, st, k, computed, wavelet, level, thr_mode, level0_raises) ==
    IF k > Len(st) THEN [err |-> "none", heap |-> h, computed |-> computed]
    ELSE LET tr == h[st[k]]
             t == WaveletTrace(Len(tr.data), wavelet, level, thr_mode, level0_raises)
         IN  IF t.err # "none"
             THEN [err |-> t.err, heap |-> h, computed |-> computed \/ t.computed]
             ELSE WaveletLoop(
                    [h EXCEPT ![st[k]] = TraceOf(Reconstructed(tr.data, t.out_len), tr.stats)],
                    st, k + 1, TRUE, wavelet, level, thr_mode, level0_raises)

\* advanced_denoise(input_path_or_stream, method, wavelet, level, threshold=None,
\* thr_mode), with pywt installed.
advanced_denoise(h, ds, fs, a, method, wavelet, level, thr_mode, level0_raises) ==
    IF method # "wavelet" THEN Result("ValueError", FALSE, FALSE, h, ds, fs, Root)
    ELSE LET ld == LoadInput(h, fs, a) IN
    IF ld.err # "none" THEN Result(ld.err, ld.read, FALSE, h, ds, fs, Root)
    ELSE LET cp == StreamCopy(ld.heap, ld.st)
             lp == WaveletLoop(cp.heap, cp.st, 1, FALSE, wavelet, level, thr_mode,
                               level0_raises)
         IN
    IF lp.err # "none" THEN Result(lp.err, ld.read, lp.computed, lp.heap, ds, fs, Root)
    ELSE WriteStream(ld.read, lp.heap, ds, fs, cp.st, ld.in_path, "denoise",
                     <<"_wd_", wavelet>>
                       \o (IF level # NoLevel THEN <<"_L">> \o Decimal(level) ELSE <<>>))

\* A new Trace with the metadata of a fresh Trace() instead of the input's.
DefaultStats(stats) == Stats(stats.npts, 1, "")

\* new_tr.stats = tr.stats.copy()
CopyStats(stats) == stats

\* The trace checks with a single trace let through.
CorrTracesNonEmpty(traces) ==
    /\ Len(traces) >= 1
    /\ \A k \in 2..Len(traces) :
         /\ traces[k].stats.sampling_rate = traces[1].stats.sampling_rate
         /\ traces[k].stats.npts = traces[1].stats.npts

\* The consistency checks of lines 635-646 on the traces (np.isclose on the
\* sampling rates, which are whole numbers of Hz here).
CorrTracesValid(traces) ==
    /\ Len(traces) >= 2
    /\ \A k \in 2..Len(traces) :
         /\ traces[k].stats.sampling_rate = traces[1].stats.sampling_rate
         /\ traces[k].stats.npts = traces[1].stats.npts

\* deno[ch, :] for a channel with samples x: the samples some window wrote,
\* and the zeros of np.zeros_like elsewhere.
Denoised(x, wins) ==
    [k \in 1..Len(x) |->
        IF LastWriter(wins, k - 1) = 0 THEN <<0, "zero">> ELSE <<x[k][1], "correlation">>]

\* correlation_denoise(input_path_or_stream, window_size, step_size,
\* corr_threshold); the threshold is given in hundredths, are_ints tells
\* whether window_size and step_size are both instances of int.
correlation_denoise(h, ds, fs, a, window_size, step_size, corr_threshold, are_ints) ==
    LET ld == LoadInput(h, fs, a) IN
    IF ld.err # "none" THEN Result(ld.err, ld.read, FALSE, h, ds, fs, Root)
    ELSE LET traces == Deref(ld.heap, ld.st) IN
    IF ~CorrTracesValid(traces) THEN Result("ValueError", ld.read, FALSE, ld.heap, ds, fs, Root)
    ELSE IF \/ ~are_ints
            \/ ~CorrParamsValid(traces[1].stats.npts, window_size, step_size)
            \/ ~(0 <= corr_threshold /\ corr_threshold <= 100)
    THEN Result("ValueError", ld.read, FALSE, ld.heap, ds, fs, Root)
    ELSE LET wins == CorrWindows(traces[1].stats.npts, window_size, step_size)
             out == Allocate(ld.heap,
                             [k \in 1..Len(traces) |->
                                 TraceOf(Denoised(traces[k].data, wins),
                                         CopyStats(traces[k].stats))])
         IN  WriteStream(ld.read, out.heap, ds, fs, out.st, ld.in_path, "denoise",
                         <<"_corr_w">> \o Decimal(window_size) \o <<"_s">>
                           \o Decimal(step_size) \o <<"_t">> \o Decimal(corr_threshold))

Max(a, b) == IF a >= b THEN a ELSE b

\* nperseg = int(max(2, min(frame_length, n_samples)))
Nperseg(frame_length, n_samples) == Max(2, Min(frame_length, n_samples))

\* noverlap = int(max(0, min(nperseg - 1, nperseg - hop_length)))
Noverlap(nperseg, hop_length) == Max(0, Min(nperseg - 1, nperseg - hop_length))

\* The loop body of spectral_subtraction_denoise for one trace (lines 757-808):
\* an empty trace passes through; SciPy rejects a window array longer than
\* the signal.
SpectralTrace(tr, frame_length) ==
    LET n_samples == Len(tr.data)
        nperseg == Nperseg(frame_length, n_samples)
    IN  IF n_samples = 0 THEN [err |-> "none", trace |-> TraceOf(tr.data, CopyStats(tr.stats))]
        ELSE IF nperseg > n_samples THEN [err |-> "ValueError"]
        ELSE [err |-> "none",
              trace |-> TraceOf(Transformed(tr.data, "specsub"), CopyStats(tr.stats))]

\* spectral_subtraction_denoise(input_path_or_stream, frame_length, hop_length, ...)
\* with the default window, noise_frames, alpha and beta.
spectral_subtraction_denoise(h, ds, fs, a, frame_length, hop_length) ==
    LET ld == LoadInput(h, fs, a) IN
    IF ld.err # "none" THEN Result(ld.err, ld.read, FALSE, h, ds, fs, Root)
    ELSE LET traces == Deref(ld.heap, ld.st) IN
    IF Len(traces) = 0 THEN Result("ValueError", ld.read, FALSE, ld.heap, ds, fs, Root)
    ELSE LET outs == [k \in 1..Len(traces) |-> SpectralTrace(traces[k], frame_length)] IN
    IF \E k \in 1..Len(outs) : outs[k].err # "none"
    THEN Result("ValueError", ld.read, outs[1].err = "none", ld.heap, ds, fs, Root)
    ELSE LET out == Allocate(ld.heap, [k \in 1..Len(outs) |-> outs[k].trace]) IN
         WriteStream(ld.read, out.heap, ds, fs, out.st, ld.in_path, "denoise",
                     <<"_specsub_n10_a1_b0.02_whann_fl">> \o Decimal(frame_length)
                       \o <<"_hl">> \o Decimal(hop_length))

(***************************************************************************)
(* convert_format (lines 352-409).                                         *)
(***************************************************************************)
\* tr.stats.channel = f"{i + 1:02d}"
Channels == <<"01", "02", "03", "04">>

HeadPath == DataDir \o <<<<"head", ".txt">>>>

\* read_headfile: FileNotFoundError, or ValueError for a file without entries.
read_headfile(fs, headfile_path) ==
    IF headfile_path \notin DOMAIN fs THEN "FileNotFoundError"
    ELSE IF fs[headfile_path].entries = 0 THEN "ValueError" ELSE "none"

\* array_to_stream_from_head(data, head): one Trace per column, the channel
\* numbered from 01, the sampling rate of the head file.
array_to_stream_from_head(data, sampling_rate) ==
    [k \in 1..data.cols |->
        TraceOf([j \in 1..data.rows |-> Raw(data.col[k][j])],
                Stats(data.rows, sampling_rate, Channels[k]))]

\* np.column_stack([tr.data[:min_len] for tr in st]), min_len the shortest trace.
StreamToMatrix(traces) ==
    LET min_len == CHOOSE n \in {traces[k].stats.npts : k \in 1..Len(traces)} :
                       \A k \in 1..Len(traces) : n <= traces[k].stats.npts
    IN  Matrix(min_len, Len(traces),
               [k \in 1..Len(traces) |-> [j \in 1..min_len |-> traces[k].data[j][1]]])

\* convert_format(input_path, output_format, headfile_path); output_format is
\* given stripped and in upper case, headfile_path = Root stands for None.
convert_format(ds, fs, input_path, output_format, headfile_path) ==
    IF output_format \notin {"SAC", "MSEED", "TXT"}
    THEN Outcome("ValueError", ds, fs, Root)
    ELSE LET sp == Splitext(input_path)
             out_dir == EnsureOutputDir(input_path, input_path \in ds, "format")
             ds1 == MakeDirs(ds, out_dir)
             out_ext == CASE output_format = "SAC" -> ".sac"
                          [] output_format = "MSEED" -> ".mseed"
                          [] output_format = "TXT" -> ".txt"
             out_path == out_dir \o <<sp[1] \o <<out_ext>>>>
         IN
    IF sp[2] = <<".txt">>
    THEN IF output_format = "TXT" THEN Outcome("ValueError", ds1, fs, Root)
         ELSE IF headfile_path = Root THEN Outcome("ValueError", ds1, fs, Root)
         ELSE IF read_headfile(fs, headfile_path) # "none"
         THEN Outcome(read_headfile(fs, headfile_path), ds1, fs, Root)
         ELSE IF input_path \notin DOMAIN fs THEN Outcome("FileNotFoundError", ds1, fs, Root)
         ELSE LET rd == read_txt_array(fs[input_path].matrix) IN
         IF rd.err # "none" THEN Outcome(rd.err, ds1, fs, Root)
         ELSE Outcome("none", ds1,
                      WriteFile(fs, out_path,
                                [kind |-> "stream",
                                 traces |-> array_to_stream_from_head(
                                              rd.data, fs[headfile_path].samplerate)]),
                      out_path)
    ELSE IF input_path \notin DOMAIN fs THEN Outcome("FileNotFoundError", ds1, fs, Root)
    ELSE IF output_format = "TXT"
    THEN Outcome("none", ds1,
                 WriteFile(fs, out_path,
                           [kind |-> "txt", matrix |-> StreamToMatrix(fs[input_path].traces)]),
                 out_path)
    ELSE Outcome("none", ds1,
                 WriteFile(fs, out_path, [kind |-> "stream", traces |-> fs[input_path].traces]),
                 out_path)

(***************************************************************************)
(* The operations machine: the caller's argument, then one call.           *)
(***************************************************************************)
MaxTraces == 2
MaxNpts == 2

SamplingRates == {100, 200}

\* Trace k of an input: its samples are told apart from every other trace's.
InputTrace(k, n, sampling_rate) ==
    TraceOf([j \in 1..n |-> Raw(10 * k + j)], Stats(n, sampling_rate, Channels[k]))

\* The inputs: up to MaxTraces traces of 1..MaxNpts samples each, sampled at
\* 100 Hz but for the last trace, which may have another rate.
InputStreams ==
    UNION {{[k \in 1..c |-> InputTrace(k, npts[k], IF k = c THEN rate ELSE 100)] :
               npts \in [1..c -> 1..MaxNpts], rate \in SamplingRates} : c \in 0..MaxTraces}

NoArg == [kind |-> "none"]

NoCall == [op |-> "none"]

OpsInit == heap = NoHeap /\ arg = NoArg /\ call = NoCall

\* The caller holds a Stream in memory.
OpsStreamArg(traces) ==
    /\ arg = NoArg
    /\ LET al == Allocate(heap, traces) IN
       /\ heap' = al.heap
       /\ arg' = [kind |-> "stream", st |-> al.st]
    /\ dirs' = dirs \cup Prefixes(Cwd)
    /\ UNCHANGED <<files, call, notOps>>

\* The caller names a waveform file, which exists or not.
OpsPathArg(traces, exists) ==
    /\ arg = NoArg
    /\ Len(traces) >= 1
    /\ arg' = [kind |-> "path", path |-> MseedPath]
    /\ dirs' = dirs \cup Prefixes(DataDir)
    /\ files' = IF exists
                THEN WriteFile(files, MseedPath, [kind |-> "stream", traces |-> traces])
                ELSE files
    /\ UNCHANGED <<heap, call, notOps>>

\* The caller passes something that is neither a str nor a Stream.
OpsOtherArg ==
    /\ arg = NoArg
    /\ arg' = [kind |-> "other"]
    /\ UNCHANGED <<dirs, files, heap, call, notOps>>

\* The text matrices the file operations are given.
OpsMatrices == {M \in Matrices : M.rows <= 2 /\ M.cols <= 2}

\* The caller names a text matrix, which exists or not, beside a head file
\* that is absent, has entries, or has none.
OpsTxtArg(M, exists, head) ==
    /\ arg = NoArg
    /\ arg' = [kind |-> "txt", path |-> TxtPath]
    /\ dirs' = dirs \cup Prefixes(DataDir)
    /\ LET f1 == IF exists THEN WriteFile(files, TxtPath, [kind |-> "txt", matrix |-> M])
                 ELSE files
       IN files' = CASE head = "none" -> f1
                     [] head = "ok" -> WriteFile(f1, HeadPath, [kind |-> "head", entries |-> 1, samplerate |-> 100])
                     [] head = "empty" -> WriteFile(f1, HeadPath, [kind |-> "head", entries |-> 0, samplerate |-> 0])
    /\ UNCHANGED <<heap, call, notOps>>

PklPath == DataDir \o <<OutputDirName("compress"), <<"m", "-coefficients", ".pkl">>>>

\* The caller names a coefficient file, which exists or not; it records
\* n_traces traces, which may be more than it holds coefficients for.
OpsPklArg(M, n_traces, exists) ==
    /\ arg = NoArg
    /\ M.rows >= 2
    /\ arg' = [kind |-> "pkl", path |-> PklPath]
    /\ dirs' = dirs \cup Prefixes(Dirname(PklPath))
    /\ files' = IF exists
                THEN WriteFile(files, PklPath,
                               [Payload(M, "haar") EXCEPT !.shape = <<M.rows, n_traces>>])
                ELSE files
    /\ UNCHANGED <<heap, call, notOps>>

StreamArgKinds == {"stream", "path", "other"}

\* The call of `op` with `params`, ended as `r`: the state after it, with
\* the memory and the file system of before the call kept for comparison.
Called(op, params, r) ==
    /\ call' = [op |-> op, params |-> params, err |-> r.err, read |-> r.read,
                computed |-> r.computed, path |-> r.path,
                heap0 |-> heap, dirs0 |-> dirs, files0 |-> files]
    /\ heap' = r.heap
    /\ dirs' = r.dirs
    /\ files' = r.files
    /\ UNCHANGED <<arg, notOps>>

CanCall == call = NoCall /\ arg.kind \in StreamArgKinds

FreqChoices == {<<1, 5>>, <<5, 1>>, <<5, 5>>, <<0, 5>>, <<1, 60>>, <<60, 70>>, <<>>}

CallBandpassDenoise(freqs) ==
    /\ CanCall
    /\ Len(freqs) = 2
    /\ Called("bandpass_denoise", [freqs |-> freqs],
              bandpass_denoise(heap, dirs, files, arg, freqs))

CallFilterStream(mode, kind, freqs, order, zerophase) ==
    /\ CanCall
    /\ Called("filter_stream",
              [mode |-> mode, kind |-> kind, freqs |-> freqs, order |-> order,
               zerophase |-> zerophase],
              filter_stream(heap, dirs, files, arg, mode, kind, freqs, order, zerophase))

CallStrainToVelocity(apparent_velocity, normalize_divisor) ==
    /\ CanCall
    /\ Called("strain_to_velocity",
              [apparent_velocity |-> apparent_velocity,
               normalize_divisor |-> normalize_divisor],
              strain_to_velocity(heap, dirs, files, arg, apparent_velocity,
                                 normalize_divisor))

CallAdvancedDenoise(method, wavelet, level, thr_mode, level0_raises) ==
    /\ CanCall
    /\ Called("advanced_denoise",
              [method |-> method, wavelet |-> wavelet, level |-> level,
               thr_mode |-> thr_mode],
              advanced_denoise(heap, dirs, files, arg, method, wavelet, level, thr_mode,
                               level0_raises))

CallCorrelationDenoise(window_size, step_size, corr_threshold, are_ints) ==
    /\ CanCall
    /\ Called("correlation_denoise",
              [window_size |-> window_size, step_size |-> step_size,
               corr_threshold |-> corr_threshold, are_ints |-> are_ints],
              correlation_denoise(heap, dirs, files, arg, window_size, step_size,
                                  corr_threshold, are_ints))

CallSpectralSubtraction(frame_length, hop_length) ==
    /\ CanCall
    /\ Called("spectral_subtraction_denoise",
              [frame_length |-> frame_length, hop_length |-> hop_length],
              spectral_subtraction_denoise(heap, dirs, files, arg, frame_length,
                                           hop_length))

\* The file operations return no memory: their Outcome as a Result.
FileResult(o) ==
    Result(o.err, FALSE, o.err = "none", heap, o.dirs, o.files, o.path)

CallConvertFormat(output_format, headfile_path) ==
    /\ call = NoCall
    /\ arg.kind \in {"txt", "path"}
    /\ Called("convert_format",
              [output_format |-> output_format, headfile_path |-> headfile_path],
              FileResult(convert_format(dirs, files, arg.path, output_format,
                                        headfile_path)))

CallCompressFwtTxt(wavelet) ==
    /\ call = NoCall
    /\ arg.kind = "txt"
    /\ Called("compress_fwt_txt", [wavelet |-> wavelet],
              FileResult(compress_fwt_txt(dirs, files, arg.path, wavelet)))

CallDecompressFwtToTxt ==
    /\ call = NoCall
    /\ arg.kind = "pkl"
    /\ Called("decompress_fwt_to_txt", [pkl_path |-> arg.path],
              FileResult(decompress_fwt_to_txt(dirs, files, arg.path)))

\* The texts of the two line edits of the conversion window, as sequences
\* of characters.
LineEditTexts == {<<"0">>, <<"-", "1">>, <<"2">>, <<>>, <<"a">>}

RECURSIVE Number(_)
Number(digits) ==
    IF digits = <<>> THEN 0
    ELSE 10 * Number(SubSeq(digits, 1, Len(digits) - 1))
         + (CHOOSE d \in 0..9 : Digits[d + 1] = digits[Len(digits)])

\* float(text) for the texts made of an optional minus sign and decimal
\* digits: the number, or ValueError when the text is not one.
Float(text) ==
    LET negative == text # <<>> /\ Head(text) = "-"
        digits == IF negative THEN Tail(text) ELSE text
    IN  IF digits = <<>> \/ \E k \in 1..Len(digits) :
                                 \A d \in 1..Len(Digits) : Digits[d] # digits[k]
        THEN [err |-> "ValueError"]
        ELSE [err |-> "none",
              value |-> IF negative THEN 0 - Number(digits) ELSE Number(digits)]

NoWorker == [class |-> "none"]

\* The conversion window with no file selected:
\* listWidget_datafile_path.count() == 0.
OpsEmptyList ==
    /\ arg = NoArg
    /\ arg' = [kind |-> "empty_list"]
    /\ UNCHANGED <<heap, dirs, files, call, notOps>>

\* Ui_SubParac.start_conversion: the click on the begin button of the
\* conversion window, whose file list holds the path of arg or nothing.
\* The handler ends with self.worker.start() or with a warning box.
start_conversion(apparent_velocity_text, normalize_divisor_text) ==
    /\ call = NoCall
    /\ arg.kind \in {"empty_list", "path"}
    /\ LET count == IF arg.kind = "empty_list" THEN 0 ELSE 1
           apparent_velocity == Float(apparent_velocity_text)
           normalize_divisor == Float(normalize_divisor_text)
           worker ==
               IF count = 0 THEN NoWorker
               ELSE IF apparent_velocity.err # "none" \/ normalize_divisor.err # "none"
               THEN NoWorker
               ELSE IF apparent_velocity.value <= 0 \/ normalize_divisor.value <= 0
               THEN NoWorker
               ELSE [class |-> "ParacWorker", input_path |-> arg.path,
                     apparent_velocity |-> apparent_velocity.value,
                     normalize_divisor |-> normalize_divisor.value]
       IN  call' = [op |-> "start_conversion",
                    params |-> [apparent_velocity_text |-> apparent_velocity_text,
                                normalize_divisor_text |-> normalize_divisor_text],
                    err |-> "none", read |-> FALSE, computed |-> FALSE, path |-> Root,
                    heap0 |-> heap, dirs0 |-> dirs, files0 |-> files,
                    count |-> count, worker |-> worker]
    /\ UNCHANGED <<heap, dirs, files, arg, notOps>>

OpsNext ==
    \/ \E traces \in InputStreams : OpsStreamArg(traces)
    \/ \E traces \in InputStreams, exists \in BOOLEAN : OpsPathArg(traces, exists)
    \/ OpsOtherArg
    \/ \E freqs \in FreqChoices : CallBandpassDenoise(freqs)
    \/ \E mode \in FilterModes \cup {"nosuch"}, kind \in {"butterworth", "nosuch"},
          freqs \in FreqChoices, order \in {2, 4}, zerophase \in BOOLEAN :
          CallFilterStream(mode, kind, freqs, order, zerophase)
    \/ \E apparent_velocity \in {0, 2}, normalize_divisor \in {0, 5000} :
          CallStrainToVelocity(apparent_velocity, normalize_divisor)
    \/ \E method \in {"wavelet", "nosuch"}, wavelet \in {"haar", "nosuch"},
          level \in {NoLevel, 1}, thr_mode \in {"soft", "nosuch"},
          level0_raises \in BOOLEAN :
          CallAdvancedDenoise(method, wavelet, level, thr_mode, level0_raises)
    \/ \E window_size \in 0..(MaxNpts + 1), step_size \in 0..MaxNpts,
          corr_threshold \in {50, 150}, are_ints \in BOOLEAN :
          CallCorrelationDenoise(window_size, step_size, corr_threshold, are_ints)
    \/ \E frame_length \in 1..(MaxNpts + 1), hop_length \in 1..MaxNpts :
          CallSpectralSubtraction(frame_length, hop_length)
    \/ \E M \in OpsMatrices, exists \in BOOLEAN, head \in {"none", "ok", "empty"} :
          OpsTxtArg(M, exists, head)
    \/ \E M \in OpsMatrices, n_traces \in 1..(MaxCols + 1), exists \in BOOLEAN :
          OpsPklArg(M, n_traces, exists)
    \/ \E output_format \in {"SAC", "TXT", "XYZ"}, headfile_path \in {Root, HeadPath} :
          CallConvertFormat(output_format, headfile_path)
    \/ \E wavelet \in {"haar", "nosuch"} : CallCompressFwtTxt(wavelet)
    \/ CallDecompressFwtToTxt
    \/ OpsEmptyList
    \/ \E apparent_velocity_text \in LineEditTexts,
          normalize_divisor_text \in LineEditTexts :
          start_conversion(apparent_velocity_text, normalize_divisor_text)

(***************************************************************************)
(* The worker threads of the GUI (src/dfspy_gui): each run calls the core  *)
(* inside try/except and reports with the signals finished and error.      *)
(***************************************************************************)
MaxBatch == 2

JobStreamA == DataDir \o <<<<"a", ".mseed">>>>

JobStreamB == DataDir \o <<<<"b", ".mseed">>>>

\* A file of the base name of JobStreamA in another format.
JobStreamSac == DataDir \o <<<<"a", ".sac">>>>

\* What the files a job may name hold when they exist.
JobContent(path) ==
    CASE path = TxtPath -> [kind |-> "txt", matrix |-> Matrix(2, 2, <<<<1, 3>>, <<3, 1>>>>)]
      [] path = HeadPath -> [kind |-> "head", entries |-> 1, samplerate |-> 100]
      [] path = PklPath -> Payload(Matrix(2, 1, <<<<1, 3>>>>), "haar")
      [] OTHER -> [kind |-> "stream",
                   traces |-> [k \in 1..MaxTraces |-> InputTrace(k, MaxNpts, 100)]]

JobPaths == {JobStreamA, JobStreamB, JobStreamSac, TxtPath, HeadPath, PklPath}

\* The batches of input files of a FormatConvertWorker.
Batches ==
    UNION {[1..n -> {JobStreamA, JobStreamB, JobStreamSac, TxtPath}] : n \in 0..MaxBatch}

JobIdle == [state |-> "idle"]

\* The worker was constructed and start() called; run has not run.
Started == job.state = "ready"

JobInit == job = JobIdle

\* The files on disk when the worker is started.
JobFiles(exist) ==
    /\ job = JobIdle
    /\ job' = [state |-> "ready"]
    /\ dirs' = dirs \cup Prefixes(DataDir)
                     \cup (IF PklPath \in exist THEN Prefixes(Dirname(PklPath)) ELSE {})
    /\ files' = [p \in exist |-> JobContent(p)]
    /\ UNCHANGED notJob

\* An except clause that swallows the exception.
ExceptPass(emitted, raised) == emitted

\* try: <body> except Exception as e: self.error.emit(...): the signals
\* emitted by a body that emitted `emitted` and then raised, or returned.
TryExcept(emitted, raised) == IF raised THEN emitted \o <<"error">> ELSE emitted

\* A body that calls the core and then emits finished: nothing is emitted
\* when the call raised.
EmitFinished(r) == IF r.err = "none" THEN <<"finished">> ELSE <<>>

\* The run of `worker` over: the core ended as r, the body emitted `emitted`.
Ran(worker, params, r, emitted) ==
    /\ job' = [state |-> "done", worker |-> worker, params |-> params, err |-> r.err,
               signals |-> TryExcept(emitted, r.err # "none"),
               dirs0 |-> dirs, files0 |-> files]
    /\ dirs' = r.dirs
    /\ files' = r.files
    /\ UNCHANGED notJob

\* for file_path in self.input_files: dfspy_cores.convert_format(...): the
\* loop ends at the first file that raises.
RECURSIVE ConvertFiles(_, _, _, _, _)
ConvertFiles(ds, fs, input_files, output_format, headfile_path) ==
    IF input_files = <<>> THEN Outcome("none", ds, fs, Root)
    ELSE LET o == convert_format(ds, fs, Head(input_files), output_format, headfile_path)
         IN  IF o.err # "none" THEN o
             ELSE ConvertFiles(o.dirs, o.files, Tail(input_files), output_format,
                               headfile_path)

FormatConvertWorkerRun(input_files, output_format, headfile_path) ==
    /\ Started
    /\ LET r == ConvertFiles(dirs, files, input_files, output_format, headfile_path) IN
       Ran("FormatConvertWorker",
           [input_files |-> input_files, output_format |-> output_format,
            headfile_path |-> headfile_path],
           r, EmitFinished(r))

\* The str a worker passes as input_path_or_stream.
PathArg(path) == [kind |-> "path", path |-> path]

\* The parameter dictionaries the denoise window builds.
DenoiseParams ==
    [freqs : {<<1, 5>>, <<5, 1>>}, window_size : {1, MaxNpts + 1}, step_size : {1},
     corr_threshold : {50}, frame_length : {MaxNpts}, hop_length : {1},
     wavelet : {"haar", "nosuch"}, level : {NoLevel, 1}]

\* The if/elif chain of DenoiseWorker.run: the core routine called for
\* self.method, "none" for the else branch.
DenoiseCore(method) ==
    CASE method = "bandpass" -> "bandpass_denoise"
      [] method = "correlation" -> "correlation_denoise"
      [] method = "spectral_subtraction" -> "spectral_subtraction_denoise"
      [] method = "wavelet" -> "advanced_denoise"
      [] OTHER -> "none"

\* The body of DenoiseWorker.run up to the emit.
DenoiseDispatch(ds, fs, input_path, method, params, level0_raises) ==
    LET a == PathArg(input_path)
        core == DenoiseCore(method)
    IN  CASE core = "bandpass_denoise" -> bandpass_denoise(NoHeap, ds, fs, a, params.freqs)
          [] core = "correlation_denoise" ->
               correlation_denoise(NoHeap, ds, fs, a, params.window_size,
                                   params.step_size, params.corr_threshold, TRUE)
          [] core = "spectral_subtraction_denoise" ->
               spectral_subtraction_denoise(NoHeap, ds, fs, a,
                                            params.frame_length, params.hop_length)
          [] core = "advanced_denoise" ->
               advanced_denoise(NoHeap, ds, fs, a, "wavelet", params.wavelet,
                                params.level, "soft", level0_raises)
          [] OTHER -> Result("ValueError", FALSE, FALSE, NoHeap, ds, fs, Root)

DenoiseWorkerRun(input_path, method, params, level0_raises) ==
    /\ Started
    /\ LET r == DenoiseDispatch(dirs, files, input_path, method, params, level0_raises)
       IN  Ran("DenoiseWorker", [input_path |-> input_path, method |-> method], r,
               EmitFinished(r))

\* The items of comboBox_method.
MethodItems ==
    {"", "Bandpass", "Wavelet Denoise", "Correlation Denoise", "Spectral Subtraction"}

\* The dictionary of start_denoise, .get(method): its four keys are the
\* Chinese names of the methods, written here in pinyin; a text that is no
\* key gives None.
MethodKey(method) ==
    CASE method = "dai tong lv bo" -> "bandpass"
      [] method = "xiao bo jiang zao" -> "wavelet"
      [] method = "xiang guan jiang zao" -> "correlation"
      [] method = "pu jian fa jiang zao" -> "spectral_subtraction"
      [] OTHER -> "None"

\* The parameters the dialogs of get_method_parameters return.
WindowParams ==
    {p \in DenoiseParams : p.freqs = <<1, 5>> /\ p.wavelet = "haar" /\ p.level = 1}

\* Ui_SubDenoise.start_denoise with JobStreamA listed or no file listed:
\* the handler ends with a warning, with a cancelled dialog, or with
\* self.worker.start().
start_denoise(count, method, ok, params) ==
    /\ Started
    /\ job' = IF count = 0 \/ method = "" THEN [state |-> "warned"]
              ELSE IF ~ok THEN [state |-> "cancelled"]
              ELSE [state |-> "started", worker |-> "DenoiseWorker",
                    input_path |-> JobStreamA, method_text |-> method,
                    method |-> MethodKey(method), params |-> params]
    /\ UNCHANGED <<dirs, files, notJob>>

\* DenoiseWorker.run of the worker start_denoise started.
DenoiseWindowWorkerRun(level0_raises) ==
    /\ job.state = "started"
    /\ job.worker = "DenoiseWorker"
    /\ LET r == DenoiseDispatch(dirs, files, job.input_path, job.method, job.params,
                                level0_raises)
       IN  Ran("DenoiseWorker",
               [input_path |-> job.input_path, method |-> job.method,
                method_text |-> job.method_text, core |-> DenoiseCore(job.method)],
               r, EmitFinished(r))

\* CompressWorker.run: a method other than 'fwt' emits error from the body.
CompressWorkerRun(txt_path, method) ==
    /\ Started
    /\ IF method = "fwt"
       THEN LET r == compress_fwt_txt(dirs, files, txt_path, "haar") IN
            Ran("CompressWorker", [txt_path |-> txt_path, method |-> method], r,
                EmitFinished(r))
       ELSE Ran("CompressWorker", [txt_path |-> txt_path, method |-> method],
                Outcome("none", dirs, files, Root), <<"error">>)

DecompressWorkerRun(pkl_path) ==
    /\ Started
    /\ LET r == decompress_fwt_to_txt(dirs, files, pkl_path) IN
       Ran("DecompressWorker", [pkl_path |-> pkl_path], r, EmitFinished(r))

ParacWorkerRun(input_path, apparent_velocity, normalize_divisor) ==
    /\ Started
    /\ LET r == strain_to_velocity(NoHeap, dirs, files, PathArg(input_path),
                                   apparent_velocity, normalize_divisor)
       IN  Ran("ParacWorker",
               [input_path |-> input_path, apparent_velocity |-> apparent_velocity,
                normalize_divisor |-> normalize_divisor],
               r, EmitFinished(r))

JobNext ==
    \/ \E exist \in SUBSET JobPaths : JobFiles(exist)
    \/ \E input_files \in Batches, output_format \in {"SAC", "TXT", "XYZ"},
          headfile_path \in {Root, HeadPath} :
          FormatConvertWorkerRun(input_files, output_format, headfile_path)
    \/ \E input_path \in {JobStreamA, JobStreamB},
          method \in {"bandpass", "correlation", "spectral_subtraction", "wavelet",
                      "nosuch"},
          params \in DenoiseParams, level0_raises \in BOOLEAN :
          DenoiseWorkerRun(input_path, method, params, level0_raises)
    \/ \E method \in {"fwt", "nosuch"} : CompressWorkerRun(TxtPath, method)
    \/ DecompressWorkerRun(PklPath)
    \/ \E count \in {0, 1}, method \in MethodItems, ok \in BOOLEAN, params \in WindowParams :
          start_denoise(count, method, ok, params)
    \/ \E level0_raises \in BOOLEAN : DenoiseWindowWorkerRun(level0_raises)
    \/ \E apparent_velocity \in {0, 2}, normalize_divisor \in {0, 5000} :
          ParacWorkerRun(JobStreamA, apparent_velocity, normalize_divisor)

(***************************************************************************)
(* The spectral subtraction of spectral_subtraction_denoise (lines         *)
(* 776-797) on the magnitudes mag[bin][frame] of one trace.  Magnitudes    *)
(* are whole multiples of eps = 1e-12; alpha and beta are in hundredths.   *)
(***************************************************************************)
MaxBins == 2
MaxFrames == 2

\* eps = 1e-12, the unit of the magnitudes.
Eps == 1

Mags == {0, 3}

\* np.abs(Zxx) of the traces considered: n_bins rows of n_frames magnitudes.
Spectra ==
    UNION {[1..shape[1] -> [1..shape[2] -> Mags]] :
              shape \in (1..MaxBins) \X (1..MaxFrames)}

RECURSIVE SumFirst(_, _)
SumFirst(row, n) == IF n = 0 THEN 0 ELSE row[n] + SumFirst(row, n - 1)

\* nf = min(noise_frames, mag.shape[1]) frames are averaged when
\* noise_frames > 0; the estimates below are nf times the mean, and once the
\* minimum otherwise.
Scale(noise_frames, n_frames) ==
    IF noise_frames > 0 /\ n_frames >= 1 THEN Min(noise_frames, n_frames) ELSE 1

\* noise_mag of one bin, times Scale: np.mean(mag[:, :nf], axis=1) or
\* np.min(mag, axis=1), then np.maximum(noise_mag, eps).
NoiseMag(row, noise_frames) ==
    LET scale == Scale(noise_frames, Len(row))
        estimate == IF noise_frames > 0 /\ Len(row) >= 1
                    THEN SumFirst(row, scale)
                    ELSE CHOOSE v \in {row[t] : t \in 1..Len(row)} :
                             \A t \in 1..Len(row) : v <= row[t]
    IN  Max(estimate, scale * Eps)

\* The subtraction with the over-subtraction factor fixed at 1.
MagHatUnitAlpha(mag, noise, alpha, beta, scale) ==
    Max(100 * scale * mag - 100 * noise, beta * noise)

\* mag_hat = np.maximum(mag - alpha * noise_mag, beta * noise_mag), times
\* 100 * scale; noise is noise_mag times scale.
MagHat(mag, noise, alpha, beta, scale) ==
    Max(100 * scale * mag - alpha * noise, beta * noise)

SubIdle == [state |-> "idle"]

SubInit == sub = SubIdle

\* Lines 781-793 for one trace with magnitudes mag.
SpectralSubtraction(mag, noise_frames, alpha, beta) ==
    /\ sub = SubIdle
    /\ LET n_frames == Len(mag[1])
           scale == Scale(noise_frames, n_frames)
           noise_mag == [b \in DOMAIN mag |-> NoiseMag(mag[b], noise_frames)]
       IN  sub' = [state |-> "done", mag |-> mag, noise_frames |-> noise_frames,
                   alpha |-> alpha, beta |-> beta, scale |-> scale,
                   noise_mag |-> noise_mag,
                   mag_hat |-> [b \in DOMAIN mag |->
                                   [t \in 1..n_frames |->
                                       MagHat(mag[b][t], noise_mag[b], alpha, beta, scale)]]]
    /\ UNCHANGED notSub

SubNext ==
    \E mag \in Spectra, noise_frames \in {0, 1, 10}, alpha \in {0, 100}, beta \in {0, 2} :
        SpectralSubtraction(mag, noise_frames, alpha, beta)

(***************************************************************************)
(* The import of dfspy_cores: its module-level statements run in order, in *)
(* an environment where each optional library is installed or not.  A def  *)
(* statement binds its names; an import outside try raises when the        *)
(* library is missing, and the import of the module fails there.           *)
(***************************************************************************)
Libraries == {"matplotlib", "obspy", "pywt", "scipy"}

TryImport(lib, names) == [kind |-> "try_import", lib |-> lib, names |-> names]

Import(lib, names) == [kind |-> "import", lib |-> lib, names |-> names]

Def(names) == [kind |-> "def", lib |-> "none", names |-> names]

\* Lines 60-77, the functions of lines 82-901, lines 912-913, the functions
\* of lines 916-1123.
ModuleStatements ==
    <<TryImport("matplotlib", {"plt"}),
      TryImport("obspy", {"obspy_read", "Stream", "Trace", "UTCDateTime"}),
      TryImport("pywt", {"pywt"}),
      Def({"convert_format", "bandpass_denoise", "filter_stream", "advanced_denoise",
           "correlation_denoise", "spectral_subtraction_denoise", "strain_to_velocity",
           "compress_fwt_txt"}),
      Import("pywt", {"pywt"}),
      Import("scipy", {"fft"}),
      Def({"decompress_fwt_to_txt", "gzip_compress", "gzip_decompress"})>>

\* The public operations and the globals each tests against None first.
Operations ==
    {"convert_format", "bandpass_denoise", "filter_stream", "advanced_denoise",
     "correlation_denoise", "spectral_subtraction_denoise", "strain_to_velocity",
     "compress_fwt_txt", "decompress_fwt_to_txt", "gzip_compress", "gzip_decompress"}

Guards(op) ==
    CASE op = "advanced_denoise" -> <<"obspy_read", "pywt">>
      [] op \in {"compress_fwt_txt", "decompress_fwt_to_txt"} -> <<"pywt">>
      [] op \in {"correlation_denoise", "spectral_subtraction_denoise"} ->
            <<"obspy_read", "Stream", "Trace">>
      [] op \in {"bandpass_denoise", "filter_stream", "strain_to_velocity"} ->
            <<"obspy_read">>
      [] OTHER -> <<>>

ModIdle == [state |-> "idle"]

ModInit == mod = ModIdle

\* import dfspy_cores in an environment with the libraries `installed`.
ModImport(installed) ==
    /\ mod = ModIdle
    /\ mod' = [state |-> "importing", installed |-> installed, pc |-> 1,
               globals |-> [n \in {} |-> "None"]]
    /\ UNCHANGED notMod

Bind(globals, names, value) ==
    [n \in DOMAIN globals \cup names |-> IF n \in names THEN value ELSE globals[n]]

\* The next module-level statement.
ModStatement ==
    /\ mod.state = "importing"
    /\ LET stmt == ModuleStatements[mod.pc]
           present == stmt.lib \in mod.installed
           state == IF stmt.kind = "import" /\ ~present THEN "failed"
                    ELSE IF mod.pc = Len(ModuleStatements) THEN "loaded"
                    ELSE "importing"
           globals == CASE stmt.kind = "def" -> Bind(mod.globals, stmt.names, "function")
                        [] stmt.kind = "try_import" ->
                              Bind(mod.globals, stmt.names,
                                   IF present THEN "imported" ELSE "None")
                        [] stmt.kind = "import" ->
                              IF present THEN Bind(mod.globals, stmt.names, "imported")
                              ELSE mod.globals
       IN  mod' = [mod EXCEPT !.state = state, !.globals = globals,
                              !.pc = IF state = "failed" THEN mod.pc ELSE mod.pc + 1]
    /\ UNCHANGED notMod

\* The first guard of `op` that finds its global None, from guard k on.
RECURSIVE FirstMissing(_, _, _)
FirstMissing(globals, guards, k) ==
    IF k > Len(guards) THEN "none"
    ELSE IF globals[guards[k]] = "None" THEN "ImportError"
    ELSE FirstMissing(globals, guards, k + 1)

\* A call of dfspy_cores.<op> after the import: AttributeError when the
\* name is not bound, ImportError from the guards at the head of op, else
\* the body of op runs.
ModCall(op) ==
    /\ mod.state = "loaded"
    /\ mod' = [state |-> "called", installed |-> mod.installed, pc |-> mod.pc,
               globals |-> mod.globals, op |-> op,
               err |-> IF op \notin DOMAIN mod.globals THEN "AttributeError"
                       ELSE FirstMissing(mod.globals, Guards(op), 1)]
    /\ UNCHANGED notMod

ModNext ==
    \/ \E installed \in SUBSET Libraries : ModImport(installed)
    \/ ModStatement
    \/ \E op \in Operations : ModCall(op)

(***************************************************************************)
(* Independent jobs in _ensure_output_dir (lines 82-116) for one input and *)
(* one task.  Each job resolves the output directory and then runs         *)
(* os.makedirs(out_dir, exist_ok=True), whose file-system calls are steps  *)
(* of their own: os.path.exists(head) on the way up, os.mkdir(name) on the *)
(* way down.  The jobs interleave between any two of these steps.          *)
(***************************************************************************)
MaxJobs == 2

Jobs == 1..MaxJobs

\* The inputs resolved: a file in /d, in /d/e, and in an output directory.
ParInputs ==
    {<<<<"d">>, <<"in", ".mseed">>>>,
     <<<<"d">>, <<"e">>, <<"in", ".mseed">>>>,
     <<<<"d">>, OutputDirName("format"), <<"in", ".mseed">>>>}

\* os.mkdir(name) of makedirs without its except clause: it raises when
\* name exists.
MkdirOrFail(ds, name) ==
    IF name \in ds THEN [err |-> "FileExistsError", dirs |-> ds]
    ELSE [err |-> "none", dirs |-> ds \cup {name}]

\* try: mkdir(name, mode) except OSError: if not exist_ok or not
\* path.isdir(name): raise -- with exist_ok=True.  The parent of name
\* exists when it is called.
Mkdir(ds, name) ==
    IF name \in ds THEN [err |-> "none", dirs |-> ds]
    ELSE [err |-> "none", dirs |-> ds \cup {name}]

ParIdle == [state |-> "idle"]

ParInit == par = ParIdle

\* The jobs are created; the first `made` components of the output
\* directory exist already, and an output directory that exists holds a
\* file.
ParStart(input_path, task_name, made) ==
    /\ par = ParIdle
    /\ LET out_dir == EnsureOutputDir(input_path, FALSE, task_name)
           ds == Prefixes(SubSeq(out_dir, 1, made))
           fs == IF made = Len(out_dir)
                 THEN WriteFile(NoFiles, out_dir \o <<<<"old", ".mseed">>>>,
                                [kind |-> "stream", traces |-> <<>>])
                 ELSE NoFiles
       IN  /\ made \in 0..Len(out_dir)
           /\ dirs' = ds
           /\ files' = fs
           /\ par' = [state |-> "running", input_path |-> input_path,
                      task_name |-> task_name, dirs0 |-> ds, files0 |-> fs,
                      proc |-> [j \in Jobs |-> [pc |-> "resolve"]]]
    /\ UNCHANGED notPar

\* Lines 98-113 of job j: os.path.isdir(abs_in), the walk up, the join.
ParResolve(j) ==
    /\ par.state = "running"
    /\ par.proc[j].pc = "resolve"
    /\ LET out_dir == EnsureOutputDir(par.input_path, par.input_path \in dirs,
                                      par.task_name)
       IN  par' = [par EXCEPT !.proc[j] = [pc |-> "exists", out_dir |-> out_dir,
                                            k |-> Len(out_dir)]]
    /\ UNCHANGED <<dirs, files, notPar>>

\* makedirs(name) of job j, name being the first k components of out_dir:
\* if head and tail and not path.exists(head): makedirs(head).
ParExists(j) ==
    /\ par.state = "running"
    /\ par.proc[j].pc = "exists"
    /\ LET p == par.proc[j]
           head == SubSeq(p.out_dir, 1, p.k - 1)
       IN  par' = IF head # Root /\ head \notin dirs
                  THEN [par EXCEPT !.proc[j].k = p.k - 1]
                  ELSE [par EXCEPT !.proc[j].pc = "mkdir"]
    /\ UNCHANGED <<dirs, files, notPar>>

\* The mkdir of makedirs(name) of job j; the makedirs that called it goes
\* on with its own mkdir, and the outermost one returns out_dir.  A
\* FileExistsError of an inner makedirs is passed over by its caller.
ParMkdir(j) ==
    /\ par.state = "running"
    /\ par.proc[j].pc = "mkdir"
    /\ LET p == par.proc[j]
           name == SubSeq(p.out_dir, 1, p.k)
           r == Mkdir(dirs, name)
           raised == r.err # "none" /\ p.k = Len(p.out_dir)
       IN  /\ dirs' = r.dirs
           /\ par' = IF raised
                      THEN [par EXCEPT !.proc[j] = [pc |-> "failed", out_dir |-> p.out_dir,
                                                    k |-> p.k, err |-> r.err]]
                      ELSE IF p.k = Len(p.out_dir)
                      THEN [par EXCEPT !.proc[j].pc = "returned"]
                      ELSE [par EXCEPT !.proc[j].k = p.k + 1]
    /\ UNCHANGED <<files, notPar>>

ParNext ==
    \/ \E input_path \in ParInputs, task_name \in {"format", "denoise"}, made \in 0..3 :
          ParStart(input_path, task_name, made)
    \/ \E j \in Jobs : ParResolve(j)
    \/ \E j \in Jobs : ParExists(j)
    \/ \E j \in Jobs : ParMkdir(j)

(***************************************************************************)
(* The classification of the channels of one window of                     *)
(* correlation_denoise (lines 677-691).  A correlation is written in       *)
(* hundredths; np.corrcoef(win) is symmetric with 1 on its diagonal.       *)
(***************************************************************************)
MaxChannels == 3

AbsCorrs == {0, 50, 100}

\* np.abs(np.corrcoef(win)) for n_channels channels.
AbsCorrMatrices(n_channels) ==
    {c \in [1..n_channels -> [1..n_channels -> AbsCorrs]] :
        \A a, b \in 1..n_channels : c[a][a] = 100 /\ c[a][b] = c[b][a]}

\* mean_corr = np.mean(np.abs(corr), axis=0), times n_channels: the sum of
\* column ch, the diagonal included.
MeanCorr(abs_corr, ch) == SumFirst(abs_corr[ch], Len(abs_corr[ch]))

WinIdle == [state |-> "idle"]

WinInit == cwin = WinIdle

\* Lines 677-691 for one window of at least 2 samples.
CorrelationWindow(abs_corr, corr_threshold) ==
    /\ cwin = WinIdle
    /\ LET n_channels == Len(abs_corr)
           signal_mask == [ch \in 1..n_channels |->
                              MeanCorr(abs_corr, ch) >= corr_threshold * n_channels]
           n_sig == Cardinality({ch \in 1..n_channels : signal_mask[ch]})
       IN  cwin' = [state |-> "done", abs_corr |-> abs_corr,
                   corr_threshold |-> corr_threshold, n_channels |-> n_channels,
                   signal_mask |-> signal_mask, n_sig |-> n_sig,
                   deno |-> IF n_sig >= 1 THEN "suppressed" ELSE "win"]
    /\ UNCHANGED notWin

WinNext ==
    \E n_channels \in 2..MaxChannels :
        \E abs_corr \in AbsCorrMatrices(n_channels), corr_threshold \in {0, 30, 50, 100} :
            CorrelationWindow(abs_corr, corr_threshold)

(***************************************************************************)
(* The processing sub-windows (format, compress, denoise, paraconv).  Each *)
(* has one start button, pushButton_begin, whose clicked signal is the     *)
(* only caller of the window's start handler, and one attribute            *)
(* self.worker.  The handlers run on the GUI thread, one at a time; a      *)
(* worker's run is another thread and its signal is queued to the GUI      *)
(* thread.                                                                 *)
(***************************************************************************)
MaxStarts == 2

Windows == {"format", "compress", "denoise", "paraconv"}

Signals == {"finished", "error"}

\* The signals a worker's run can end with.  The denoise window passes the
\* method_key of the selected item, and denoise_dispatch refuses None.
Refused(w) == w = "denoise" /\ \A method \in MethodItems : MethodKey(method) = "None"

WorkerSignals(w) == IF Refused(w) THEN {"error"} ELSE Signals

\* setupUi: the button is created enabled, no worker exists.
GuiIdle == [enabled |-> TRUE, created |-> 0, running |-> {}, queued |-> <<>>,
            last |-> "none"]

GuiInit == gui = [w \in Windows |-> GuiIdle]

\* The workers of a window whose finished or error handler has not run.
InFlight(b) == b.running \cup {b.queued[i][1] : i \in 1..Len(b.queued)}

StartWorkerEnabled(b) ==
    [b EXCEPT !.created = @ + 1, !.running = @ \cup {b.created + 1},
              !.last = "started"]

\* The end of a start handler: self.worker = Worker(...), the two connects,
\* pushButton_begin.setEnabled(False), self.worker.start().
StartWorker(b) ==
    [b EXCEPT !.created = @ + 1, !.running = @ \cup {b.created + 1},
              !.enabled = FALSE, !.last = "started"]

\* A click on pushButton_begin.  Qt emits clicked for an enabled button
\* only; the handler returns after a warning when its inputs are not valid.
StartClicked(w, valid) ==
    /\ (gui[w].enabled /\ valid) => gui[w].created < MaxStarts
    /\ gui' = [gui EXCEPT ![w] = IF ~gui[w].enabled THEN [@ EXCEPT !.last = "dropped"]
                                 ELSE IF ~valid THEN @
                                 ELSE StartWorker(@)]
    /\ UNCHANGED notGui

\* QThread.run of worker id: it emits one signal, queued to the GUI thread.
WorkerRuns(w, id, signal) ==
    /\ id \in gui[w].running
    /\ signal \in WorkerSignals(w)
    /\ gui' = [gui EXCEPT ![w].running = @ \ {id},
                          ![w].queued = Append(@, <<id, signal>>)]
    /\ UNCHANGED notGui

\* The finished or the error handler: pushButton_begin.setEnabled(True).
SignalHandled(w) ==
    /\ gui[w].queued # <<>>
    /\ gui' = [gui EXCEPT ![w].queued = Tail(@), ![w].enabled = TRUE,
                          ![w].last = gui[w].queued[1][2]]
    /\ UNCHANGED notGui

GuiNext ==
    \/ \E w \in Windows, valid \in BOOLEAN : StartClicked(w, valid)
    \/ \E w \in Windows, id \in 1..MaxStarts, signal \in Signals :
           WorkerRuns(w, id, signal)
    \/ \E w \in Windows : SignalHandled(w)

Init ==
    /\ LocInit /\ CorrInit /\ WavInit /\ CodecInit /\ OpsInit /\ JobInit /\ SubInit
    /\ ModInit /\ ParInit /\ WinInit /\ GuiInit

SpecGui == Init /\ [][GuiNext]_vars

SpecWin == Init /\ [][WinNext]_vars

SpecPar == Init /\ [][ParNext]_vars

SpecMod == Init /\ [][ModNext]_vars

SpecSub == Init /\ [][SubNext]_vars

SpecJob == Init /\ [][JobNext]_vars

SpecOps == Init /\ [][OpsNext]_vars

SpecCodec == Init /\ [][CodecNext]_vars

SpecWav == Init /\ [][WavNext]_vars

SpecLoc == Init /\ [][LocNext]_vars

SpecCorr == Init /\ [][CorrNext]_vars

(***************************************************************************)
(* C1: the output directory is a direct child of the nearest non-output    *)
(* ancestor.                                                               *)
(***************************************************************************)
\* d is the nearest directory at or above `from` whose base name is not an
\* output directory's (stated without the walk: every prefix between the two
\* is an output directory).
IsNearestNonOutput(d, from) ==
    /\ d \in Prefixes(from)
    /\ ~is_dfs_outputs(d)
    /\ \A q \in Prefixes(from) : Len(q) > Len(d) => is_dfs_outputs(q)

\* C1 as stated: every call returns <D>/DFSPy_<task>_outputs with D the nearest
\* non-output directory at or above the input's containing directory, and every
\* output directory of a chain is a direct child of the original input's D.
C1_AsStated ==
    \A i \in DOMAIN chain :
        /\ IsNearestNonOutput(Dirname(chain[i].out), Dirname(chain[i].input))
        /\ Basename(chain[i].out) = OutputDirName(chain[i].task)
        /\ IsNearestNonOutput(Dirname(chain[i].out), Dirname(chain[1].input))

\* Where the walk of a call starts: the input itself when it is an existing
\* directory, its containing directory otherwise.
StartDir(c) == IF c.isdir THEN c.input ELSE Dirname(c.input)

\* C1 amended: as C1, with D the nearest non-output directory at or above the
\* input path itself when that path is an existing directory, and at or above
\* its containing directory otherwise; every output directory of a chain is a
\* direct child of the D of the original input, whatever the chain length.
C1_OutputNotNested ==
    \A i \in DOMAIN chain :
        /\ IsNearestNonOutput(Dirname(chain[i].out), StartDir(chain[i]))
        /\ Basename(chain[i].out) = OutputDirName(chain[i].task)
        /\ IsNearestNonOutput(Dirname(chain[i].out), StartDir(chain[1]))

\* A chain of three operations on a file that lay inside two nested output
\* directories.
C1_Witness ==
    /\ Len(chain) >= 3
    /\ ~chain[1].isdir
    /\ Len(chain[1].input) >= 3
    /\ is_dfs_outputs(Dirname(chain[1].input))
    /\ is_dfs_outputs(Dirname(Dirname(chain[1].input)))
    /\ chain[3].task # chain[1].task

(***************************************************************************)
(* C2, C3: what the windows of correlation_denoise cover.                  *)
(***************************************************************************)
\* C2 as stated: for every valid (n_samples, window_size, step_size) each
\* output sample index is written by exactly one window.
C2_AsStated ==
    corr.state = "done" =>
        \A idx \in 0..(corr.n_samples - 1) : corr.writes[idx] = 1

\* C2 amended: every output sample index is written by exactly one window if
\* and only if window_size = n_samples, or step_size = window_size and
\* window_size divides n_samples; for all other valid parameters some index is
\* written by several windows (the last write is kept) or by none.
C2_ExactlyOnceIffTiling ==
    corr.state = "done" =>
        /\ (\A idx \in 0..(corr.n_samples - 1) : corr.writes[idx] = 1)
             <=> \/ corr.window_size = corr.n_samples
                 \/ /\ corr.step_size = corr.window_size
                    /\ corr.n_samples % corr.window_size = 0
        /\ \A idx \in 0..(corr.n_samples - 1) :
             /\ corr.writes[idx] = 0 <=> corr.deno[idx] = 0
             /\ corr.deno[idx] # 0 =>
                  /\ Covers(corr.windows[corr.deno[idx]], idx)
                  /\ \A k \in DOMAIN corr.windows :
                       k > corr.deno[idx] => ~Covers(corr.windows[k], idx)

\* Overlapping windows (step_size < window_size): a sample written twice.
C2_Witness ==
    /\ corr.state = "done"
    /\ corr.step_size < corr.window_size
    /\ Len(corr.windows) >= 3
    /\ \E idx \in 0..(corr.n_samples - 1) : corr.writes[idx] = 2

\* C3: the last window processed ends exactly at the record's last sample, no
\* window extends past the record, and no sample is outside all windows.
C3_LastWindowEndsAtRecordEnd ==
    corr.state = "done" =>
        LET last == corr.windows[Len(corr.windows)] IN
        /\ last.end = corr.n_samples
        /\ last.start = corr.n_samples - corr.window_size
        /\ \A k \in DOMAIN corr.windows : corr.windows[k].end <= corr.n_samples
        /\ \A idx \in 0..(corr.n_samples - 1) : corr.writes[idx] >= 1

(***************************************************************************)
(* C4: the length of a wavelet-denoised trace.                             *)
(***************************************************************************)
\* C4: for every trace length n >= 1, basis and level (positive or none),
\* each output trace of advanced_denoise has exactly n samples.
C4_OutputLengthIsInputLength ==
    wav.state = "done" => wav.out_len = wav.n

\* A reconstruction longer than the trace, at the maximum feasible depth.
C4_Witness ==
    /\ wav.state = "done"
    /\ wav.level = NoLevel
    /\ wav.L >= 2
    /\ wav.rec_len > wav.n

(***************************************************************************)
(* C5, C6: the matrix decompress_fwt_to_txt writes.                        *)
(***************************************************************************)
\* C5: decompress_fwt_to_txt produces a matrix of exactly the recorded shape:
\* per trace the first n_samples values of the reconstruction, followed by
\* zeros when it is shorter; a reconstruction of another length than the
\* recorded sample count raises no error.
C5_DecompressedShapeIsRecorded ==
    /\ codec.state = "txt_out" =>
         LET shape == files[codec.pkl].shape
             out == files[codec.out].matrix
         IN  /\ out.rows = shape[1]
             /\ out.cols = shape[2]
             /\ Len(out.col) = shape[2]
             /\ \A i \in 1..shape[2] :
                  LET rec == HaarWaverec(files[codec.pkl].coeffs[i - 1]) IN
                  /\ Len(out.col[i]) = shape[1]
                  /\ \A k \in 1..shape[1] :
                       out.col[i][k] = IF k <= Len(rec) THEN rec[k] ELSE 0
    /\ (codec.state = "failed" /\ "out" \in DOMAIN codec /\ codec.damage = {}) =>
         \E i \in 0..(files[codec.pkl].shape[2] - 1) :
             i \notin DOMAIN files[codec.pkl].coeffs

\* A recorded sample count beyond the reconstruction's length: zeros follow.
C5_Witness ==
    /\ codec.state = "txt_out"
    /\ codec.foreign
    /\ \E i \in 1..files[codec.pkl].shape[2] :
         /\ Len(HaarWaverec(files[codec.pkl].coeffs[i - 1])) < files[codec.pkl].shape[1]
         /\ files[codec.out].matrix.col[i][files[codec.pkl].shape[1]] = 0

\* C6: decompress_fwt_to_txt applied to the payload compress_fwt_txt wrote for
\* M yields a matrix of the shape, trace order and samples of M.
C6_RoundTripReproducesMatrix ==
    (codec.state = "txt_out" /\ ~codec.foreign) =>
        files[codec.out].matrix = codec.M

\* The operations that process a waveform.
ProcessingOps ==
    {"filter_stream", "bandpass_denoise", "advanced_denoise", "correlation_denoise",
     "spectral_subtraction_denoise", "strain_to_velocity"}

\* C7: no processing operation mutates the Stream passed as its argument:
\* after the call, successful or failed, every trace of the argument has the
\* samples and the metadata it had before the call, and the argument holds
\* the same traces.
C7_ArgumentStreamUnchanged ==
    (call.op \in ProcessingOps /\ arg.kind = "stream") =>
        /\ \A k \in 1..Len(arg.st) :
             /\ arg.st[k] \in DOMAIN call.heap0
             /\ heap[arg.st[k]] = call.heap0[arg.st[k]]
        /\ Deref(heap, arg.st) = Deref(call.heap0, arg.st)

C7_Witness ==
    /\ call.op = "filter_stream"
    /\ arg.kind = "stream"
    /\ Len(arg.st) = MaxTraces
    /\ call.err = "none"
    /\ \E k \in 1..Len(files[call.path].traces) :
         files[call.path].traces[k].data # heap[arg.st[k]].data

\* The waveform a call was given: the Stream argument as it was before the
\* call, or the traces of the file it named.
InputTraces ==
    IF arg.kind = "stream" THEN Deref(call.heap0, arg.st) ELSE call.files0[arg.path].traces

\* C8: the waveform a denoising or conversion operation writes has as many
\* traces as its input, in the same order, and output trace i carries the
\* metadata of input trace i; only sample values differ.
C8_OutputKeepsTracesAndMetadata ==
    (call.op \in ProcessingOps /\ call.err = "none") =>
        LET out == files[call.path].traces IN
        /\ Len(out) = Len(InputTraces)
        /\ \A k \in 1..Len(out) :
             /\ out[k].stats = InputTraces[k].stats
             /\ Len(out[k].data) = Len(InputTraces[k].data)

C8_Witness ==
    /\ call.op = "correlation_denoise"
    /\ call.err = "none"
    /\ Len(InputTraces) = MaxTraces
    /\ InputTraces[1].stats.channel # InputTraces[2].stats.channel
    /\ \E k \in 1..Len(InputTraces) : files[call.path].traces[k].data # InputTraces[k].data

\* C9: a public operation that fails validation leaves the file system,
\* directories and files, as it was, and a call that created a file returned
\* successfully.
C9_FailedCallLeavesFileSystem ==
    /\ (call.op # "none" /\ call.err = "ValueError") =>
           (dirs = call.dirs0 /\ files = call.files0)
    /\ (call.op # "none" /\ files # call.files0) => call.err = "none"

\* The parameters of the call that are malformed or out of range whatever
\* the input is.
MalformedParams ==
    CASE call.op = "filter_stream" ->
           \/ call.params.mode \notin FilterModes
           \/ call.params.kind \notin {"butterworth", "cheby1"}
           \/ ~FreqsValid(call.params.mode, call.params.freqs)
      [] call.op = "bandpass_denoise" -> ~BandValid(call.params.freqs)
      [] call.op = "advanced_denoise" ->
           \/ call.params.method # "wavelet"
           \/ call.params.wavelet \notin Wavelets
           \/ call.params.thr_mode \notin {"soft", "hard"}
      [] call.op = "correlation_denoise" ->
           \/ call.params.window_size <= 0
           \/ call.params.step_size <= 0
           \/ ~(0 <= call.params.corr_threshold /\ call.params.corr_threshold <= 100)
           \/ ~call.params.are_ints
      [] call.op = "strain_to_velocity" ->
           \/ call.params.apparent_velocity <= 0
           \/ call.params.normalize_divisor <= 0
      [] OTHER -> FALSE

\* C10: a processing operation called with a malformed or out-of-range
\* parameter fails with ValueError before the input is loaded and before any
\* sample is transformed.
C10_MalformedParamsFailBeforeLoad ==
    (call.op \in ProcessingOps /\ arg.kind \in {"stream", "path"} /\ MalformedParams) =>
        (call.err = "ValueError" /\ ~call.read /\ ~call.computed)

\* C11: a worker job that reports failure leaves none of its output files
\* behind: the files are those that existed when it started.
C11_FailedJobLeavesNoOutput ==
    (job.state = "done" /\ "error" \in {job.signals[k] : k \in 1..Len(job.signals)}) =>
        files = job.files0

\* C12: every run of a worker emits exactly one signal, finished or error:
\* finished when the core returned, error when it raised or the method is
\* unsupported.
C12_ExactlyOneSignal ==
    job.state = "done" =>
        /\ Len(job.signals) = 1
        /\ job.signals[1] \in {"finished", "error"}
        /\ job.err # "none" => job.signals = <<"error">>
        /\ job.signals = <<"finished">> => job.err = "none"

C12_Witness ==
    /\ job.state = "done"
    /\ job.worker = "DenoiseWorker"
    /\ job.params.method = "correlation"
    /\ job.err = "ValueError"
    /\ job.signals = <<"error">>

\* The call is a band filter, through either entry point, with a low corner
\* that is not below the high one.
ReversedBand ==
    /\ \/ call.op = "bandpass_denoise"
       \/ call.op = "filter_stream" /\ call.params.mode \in {"bandpass", "bandstop"}
    /\ Len(call.params.freqs) = 2
    /\ call.params.freqs[1] >= call.params.freqs[2]

\* C13: band-pass (and band-stop) filtering with freqLow >= freqHigh fails
\* with ValueError whatever the other arguments, the input included.
C13_ReversedBandIsValueError == ReversedBand => call.err = "ValueError"

\* The corner frequencies the call hands to the filter.
Cutoffs ==
    IF call.op = "bandpass_denoise" \/ call.params.mode \in {"bandpass", "bandstop"}
    THEN {call.params.freqs[1], call.params.freqs[2]}
    ELSE {call.params.freqs[1]}

\* The call is a filter call with valid parameters on an input that exists,
\* and some corner frequency lies above the Nyquist frequency of some trace.
AboveNyquist ==
    /\ \/ call.op = "bandpass_denoise" /\ BandValid(call.params.freqs)
       \/ /\ call.op = "filter_stream"
          /\ call.params.mode \in FilterModes
          /\ call.params.kind \in {"butterworth", "cheby1"}
          /\ FreqsValid(call.params.mode, call.params.freqs)
    /\ arg.kind = "stream" \/ (arg.kind = "path" /\ arg.path \in DOMAIN call.files0)
    /\ \E k \in 1..Len(InputTraces), f \in Cutoffs :
         2 * f > InputTraces[k].stats.sampling_rate

\* C14: a cutoff frequency above the Nyquist frequency of a trace is
\* reported as an error by filter_stream and bandpass_denoise, and no
\* filtered output is written.
C14_AboveNyquistIsReported ==
    AboveNyquist => (call.err # "none" /\ files = call.files0)

\* C15: bandpass_denoise(x, lo, hi) ends as filter_stream(x, 'bandpass',
\* freqs=(lo, hi)) with its defaults (order 4, zerophase true) does on the
\* same input: the same error kind, or the same filtered traces.
C15_BandpassDenoiseIsDefaultFilterStream ==
    call.op = "bandpass_denoise" =>
        LET r == filter_stream(call.heap0, call.dirs0, call.files0, arg, "bandpass",
                               "butterworth", call.params.freqs, 4, TRUE)
        IN  /\ r.err = call.err
            /\ call.err = "none" => r.files[r.path].traces = files[call.path].traces

\* The input of the call could be loaded.
InputLoaded == arg.kind = "stream" \/ (arg.kind = "path" /\ arg.path \in DOMAIN call.files0)

\* A precondition of correlation_denoise is violated by the call.
CorrPreconditionViolated ==
    \/ Len(InputTraces) < 2
    \/ \E k \in 2..Len(InputTraces) :
          \/ InputTraces[k].stats.npts # InputTraces[1].stats.npts
          \/ InputTraces[k].stats.sampling_rate # InputTraces[1].stats.sampling_rate
    \/ ~call.params.are_ints
    \/ call.params.window_size <= 0
    \/ call.params.step_size <= 0
    \/ call.params.window_size > InputTraces[1].stats.npts
    \/ call.params.corr_threshold < 0
    \/ call.params.corr_threshold > 100

Silent == \A b \in DOMAIN sub.mag : \A t \in DOMAIN sub.mag[b] : sub.mag[b][t] = 0

\* C17: on an all-zero trace, with the default noise_frames = 10, alpha = 1.0
\* and beta = 0.02, every modified magnitude is 0 (so that every output
\* sample is 0).
C17_SilenceStaysSilent ==
    (sub.state = "done" /\ Silent /\ sub.noise_frames = 10 /\ sub.alpha = 100
       /\ sub.beta = 2) =>
        \A b \in DOMAIN sub.mag_hat : \A t \in DOMAIN sub.mag_hat[b] :
            sub.mag_hat[b][t] = 0

\* C18: with alpha = 0 and beta = 0 the subtraction leaves every magnitude
\* as it is, whatever the noise estimate.
C18_ZeroAlphaBetaIsNoOp ==
    (sub.state = "done" /\ sub.alpha = 0 /\ sub.beta = 0) =>
        \A b \in DOMAIN sub.mag : \A t \in DOMAIN sub.mag[b] :
            sub.mag_hat[b][t] = 100 * sub.scale * sub.mag[b][t]

\* A spectrum with a magnitude above its bin's noise estimate and one below.
C18_Witness ==
    /\ sub.state = "done"
    /\ sub.alpha = 0
    /\ sub.beta = 0
    /\ \E b \in DOMAIN sub.mag : \E t, u \in DOMAIN sub.mag[b] :
         /\ sub.scale * sub.mag[b][t] > sub.noise_mag[b]
         /\ sub.scale * sub.mag[b][u] < sub.noise_mag[b]

(***************************************************************************)
(* C19: the errors of decompress_fwt_to_txt.                               *)
(***************************************************************************)
\* The recorded shape is missing or not 2-dimensional.
ShapeInvalid(payload) == Len(RecordedShape(payload)) # 2

\* The coefficients of some trace i < n_traces are absent, the case of no
\* coefficient collection included.
CoefficientsAbsent(payload) ==
    /\ ~ShapeInvalid(payload)
    /\ \/ "coeffs" \notin DOMAIN payload
       \/ \E i \in 0..(payload.shape[2] - 1) : i \notin DOMAIN payload.coeffs

Decompressed == codec.state \in {"failed", "txt_out"} /\ "out" \in DOMAIN codec

\* C19: decompress_fwt_to_txt of a payload whose recorded shape is missing or
\* not 2-dimensional, or that lacks the coefficients of a trace i < n_traces
\* (or the whole coefficient collection), raises ValueError (the exception
\* of both InvalidArgument and CorruptPayload) and no other kind, and writes
\* no output file.
C19_DecompressRejectsBadPayload ==
    (Decompressed /\ (ShapeInvalid(files[codec.pkl])
                         \/ CoefficientsAbsent(files[codec.pkl]))) =>
        /\ codec.err = "ValueError"
        /\ DOMAIN files = {TxtPath, codec.pkl}

\* The same for the payloads that hold a coefficient collection.
C19_WithCoeffsCollection ==
    (Decompressed /\ "coeffs" \in DOMAIN files[codec.pkl]
        /\ (ShapeInvalid(files[codec.pkl]) \/ CoefficientsAbsent(files[codec.pkl]))) =>
        /\ codec.err = "ValueError"
        /\ DOMAIN files = {TxtPath, codec.pkl}

(***************************************************************************)
(* C20: non-positive conversion parameters.                                *)
(***************************************************************************)
NonPositive(apparent_velocity, normalize_divisor) ==
    apparent_velocity <= 0 \/ normalize_divisor <= 0

\* The line edits hold numbers of which one is not positive.
NonPositiveTexts ==
    LET apparent_velocity == Float(call.params.apparent_velocity_text)
        normalize_divisor == Float(call.params.normalize_divisor_text)
    IN  /\ apparent_velocity.err = "none"
        /\ normalize_divisor.err = "none"
        /\ NonPositive(apparent_velocity.value, normalize_divisor.value)

\* C20: strain_to_velocity with apparent_velocity <= 0 or normalize_divisor
\* <= 0 raises ValueError before the input is read and leaves the
\* directories and files as they were; the conversion window, given the
\* same values, starts no worker (and leaves the file system alone).
C20_NonPositiveRejected ==
    /\ (call.op = "strain_to_velocity"
          /\ NonPositive(call.params.apparent_velocity, call.params.normalize_divisor)) =>
           /\ call.err = "ValueError"
           /\ ~call.read
           /\ dirs = call.dirs0
           /\ files = call.files0
    /\ (call.op = "start_conversion" /\ NonPositiveTexts) =>
           /\ call.worker = NoWorker
           /\ dirs = call.dirs0
           /\ files = call.files0

\* A zero velocity for an input file that exists and could be read.
C20_Witness ==
    /\ call.op = "strain_to_velocity"
    /\ arg.kind = "path"
    /\ arg.path \in DOMAIN files
    /\ call.params.apparent_velocity = 0
    /\ call.params.normalize_divisor > 0
    /\ call.err = "ValueError"

\* The window with a listed file and a zero divisor, and the window starting
\* a worker for positive values.
C20_WindowRejects ==
    /\ call.op = "start_conversion"
    /\ call.count = 1
    /\ call.params.normalize_divisor_text = <<"0">>
    /\ call.params.apparent_velocity_text = <<"2">>
    /\ call.worker = NoWorker

C20_WindowStarts ==
    /\ call.op = "start_conversion"
    /\ call.worker # NoWorker

(***************************************************************************)
(* C21: the output path as a function of the parameters.                   *)
(***************************************************************************)
\* The call was made on an input file and wrote its output.
WroteForFile == arg.kind = "path" /\ call.err = "none"

\* A second run, made after the first one, ends without error on a path
\* that holds no file yet.
FreshPath(r) == r.err = "none" => r.path \notin DOMAIN files

\* C21: after a run on an input file, a run of the same operation on the same
\* file with another frequency band, phase mode, threshold mode or apparent
\* velocity writes to another path than the first, whose output it leaves
\* in place.
C21_OtherParamsOtherPath ==
    /\ (call.op = "bandpass_denoise" /\ WroteForFile) =>
          \A freqs \in {<<1, 5>>, <<2, 5>>} \ {call.params.freqs} :
              FreshPath(bandpass_denoise(heap, dirs, files, arg, freqs))
    /\ (call.op = "filter_stream" /\ WroteForFile) =>
          FreshPath(filter_stream(heap, dirs, files, arg, call.params.mode,
                                  call.params.kind, call.params.freqs,
                                  call.params.order, ~call.params.zerophase))
    /\ (call.op = "advanced_denoise" /\ WroteForFile) =>
          \A thr_mode \in {"soft", "hard"} \ {call.params.thr_mode} :
              FreshPath(advanced_denoise(heap, dirs, files, arg, call.params.method,
                                         call.params.wavelet, call.params.level,
                                         thr_mode, FALSE))
    /\ (call.op = "strain_to_velocity" /\ WroteForFile) =>
          \A apparent_velocity \in {2, 3} \ {call.params.apparent_velocity} :
              FreshPath(strain_to_velocity(heap, dirs, files, arg, apparent_velocity,
                                           call.params.normalize_divisor))

(***************************************************************************)
(* C22: the output paths of one batch conversion.                          *)
(***************************************************************************)
\* The path convert_format writes for file i of the batch.
BatchOutput(i) ==
    convert_format(job.dirs0, job.files0, job.params.input_files[i],
                   job.params.output_format, job.params.headfile_path).path

\* C22: a batch format conversion that finished wrote pairwise distinct
\* output paths for pairwise distinct input files.
C22_BatchOutputsDistinct ==
    (job.state = "done" /\ job.worker = "FormatConvertWorker"
        /\ job.signals = <<"finished">>) =>
        \A i, j \in 1..Len(job.params.input_files) :
            job.params.input_files[i] # job.params.input_files[j] =>
                BatchOutput(i) # BatchOutput(j)

(***************************************************************************)
(* C23: the wavelet library as an optional dependency.                     *)
(***************************************************************************)
WaveletOps == {"advanced_denoise", "compress_fwt_txt", "decompress_fwt_to_txt"}

\* C23: with every library but pywt installed, the import of the module
\* does not fail, the wavelet-dependent operations raise ImportError when
\* called, and the other operations pass their capability guards.
C23_WaveletLibraryOptional ==
    (mod.state # "idle" /\ mod.installed = Libraries \ {"pywt"}) =>
        /\ mod.state # "failed"
        /\ mod.state = "called" =>
              mod.err = IF mod.op \in WaveletOps THEN "ImportError" ELSE "none"

(***************************************************************************)
(* C24: _ensure_output_dir under concurrency.                              *)
(***************************************************************************)
\* C24: of the jobs that resolve one input and one task, in any
\* interleaving, none fails; every job that returned, returned the same
\* path, which exists then; and the directories and files of before are
\* still there, the files of an output directory that existed included.
C24_EnsureOutputDirIdempotent ==
    par.state = "running" =>
        /\ \A j \in Jobs : par.proc[j].pc # "failed"
        /\ \A i, j \in Jobs :
              (par.proc[i].pc = "returned" /\ par.proc[j].pc = "returned") =>
                  /\ par.proc[i].out_dir = par.proc[j].out_dir
                  /\ par.proc[i].out_dir \in dirs
        /\ files = par.files0
        /\ par.dirs0 \subseteq dirs

\* Two jobs found the output directory missing, and both returned.
C24_Witness ==
    /\ par.state = "running"
    /\ par.dirs0 = {Root}
    /\ \A j \in Jobs : par.proc[j].pc = "returned" /\ par.proc[j].out_dir \in dirs

(***************************************************************************)
(* C25: the band sigma is estimated from.                                  *)
(***************************************************************************)
\* C25: for a decomposition of L >= 1 levels, sigma is estimated from the
\* last array of the list wavedec returns (cD_1, the finest detail band),
\* and the first array (the approximation) is not thresholded.
C25_SigmaFromFinestBand ==
    (wav.state = "done" /\ wav.L >= 1) =>
        /\ wav.detail = Len(wav.coeffs)
        /\ 1 \notin wav.thresholded

(***************************************************************************)
(* C26: the signal channels of a window.                                   *)
(***************************************************************************)
\* The sum of the absolute correlations of channel ch with the other
\* channels: their mean, times n_channels - 1.
MeanCorrOthers(abs_corr, ch) == SumFirst(abs_corr[ch], Len(abs_corr[ch])) - abs_corr[ch][ch]

\* C26: a channel of a window is classified as signal exactly when the mean
\* of its absolute correlations with the other channels, its own left out,
\* is at least corr_threshold; when no channel is, the window is written as
\* it is.
C26_SignalIffMeanOfOthers ==
    cwin.state = "done" =>
        /\ \A ch \in 1..cwin.n_channels :
              cwin.signal_mask[ch] <=>
                  MeanCorrOthers(cwin.abs_corr, ch)
                      >= cwin.corr_threshold * (cwin.n_channels - 1)
        /\ cwin.n_sig = 0 => cwin.deno = "win"

(***************************************************************************)
(* C27: the noise estimate of spectral_subtraction_denoise.                *)
(***************************************************************************)
RowMin(row) == CHOOSE v \in {row[t] : t \in 1..Len(row)} : \A t \in 1..Len(row) : v <= row[t]

\* The estimate of one bin as stated, times scale: the mean of the first
\* noise_frames frames when there are that many, the minimum over all
\* frames otherwise; then the floor eps.
StatedNoiseMag(row, noise_frames, scale) ==
    LET estimate == IF noise_frames > 0 /\ Len(row) >= noise_frames
                    THEN SumFirst(row, noise_frames)
                    ELSE scale * RowMin(row)
    IN  Max(estimate, scale * Eps)

\* C27: the noise magnitude of every frequency bin is the mean over the first
\* noise_frames frames when the trace has at least noise_frames frames, and
\* the minimum over all frames when it has fewer or noise_frames is not
\* positive (each raised to eps).
C27_NoiseEstimateDegradesToMinimum ==
    sub.state = "done" =>
        \A b \in DOMAIN sub.mag :
            sub.noise_mag[b] = StatedNoiseMag(sub.mag[b], sub.noise_frames, sub.scale)

(***************************************************************************)
(* C28: the STFT segment of spectral_subtraction_denoise.                  *)
(***************************************************************************)
\* C28: for every trace of n >= 1 samples the segment length is
\* min(frame_length, n), at most n, and 0 <= noverlap < segment length.
C28_SegmentWithinTrace ==
    (call.op = "spectral_subtraction_denoise" /\ InputLoaded) =>
        \A k \in 1..Len(InputTraces) :
            LET n_samples == Len(InputTraces[k].data)
                nperseg == Nperseg(call.params.frame_length, n_samples)
                noverlap == Noverlap(nperseg, call.params.hop_length)
            IN  n_samples >= 1 =>
                    /\ nperseg = Min(call.params.frame_length, n_samples)
                    /\ nperseg <= n_samples
                    /\ 0 <= noverlap
                    /\ noverlap < nperseg

\* The part on the overlap alone.
C28_OverlapWithinSegment ==
    (call.op = "spectral_subtraction_denoise" /\ InputLoaded) =>
        \A k \in 1..Len(InputTraces) :
            LET nperseg == Nperseg(call.params.frame_length, Len(InputTraces[k].data))
                noverlap == Noverlap(nperseg, call.params.hop_length)
            IN  0 <= noverlap /\ noverlap < nperseg

(***************************************************************************)
(* C29: the method the denoise window starts.                              *)
(***************************************************************************)
\* The core routine of each selectable method.
RoutineOf(method) ==
    CASE method = "Bandpass" -> "bandpass_denoise"
      [] method = "Wavelet Denoise" -> "advanced_denoise"
      [] method = "Correlation Denoise" -> "correlation_denoise"
      [] method = "Spectral Subtraction" -> "spectral_subtraction_denoise"

SelectableMethods == MethodItems \ {""}

\* C29: the worker the denoise window started for a selectable method
\* called the core routine of that method, and raised 'unsupported method'
\* for no selectable method.
C29_WindowMethodReachesCore ==
    (job.state = "done" /\ job.worker = "DenoiseWorker"
        /\ "method_text" \in DOMAIN job.params) =>
        /\ job.params.method_text \in SelectableMethods
        /\ job.params.core = RoutineOf(job.params.method_text)

(***************************************************************************)
(* C30.  In each processing sub-window at most one worker is in flight:    *)
(* the start button is disabled exactly while a worker that was started    *)
(* has not had its finished or error handler run, so a start request in    *)
(* between creates no second worker, and after either outcome the button   *)
(* is enabled again.                                                       *)
(***************************************************************************)
C30_OneWorkerInFlight ==
    \A w \in Windows :
        /\ Cardinality(InFlight(gui[w])) <= 1
        /\ gui[w].enabled <=> InFlight(gui[w]) = {}
        /\ gui[w].last \in Signals => gui[w].enabled

\* A second worker is in flight, started after the first one's outcome, and
\* a click made meanwhile was dropped.
C30_Witness ==
    \E w \in Windows :
        /\ gui[w].created = 2
        /\ gui[w].last = "dropped"
        /\ InFlight(gui[w]) = {2}

====
